---- MODULE Spec2Model ----
(***************************************************************************)
(* LearnQuest backend: the gamification / progress core as a state machine.*)
(* Tables are bags of rows (no uniqueness is enforced by the schema), each *)
(* route handler or service function is one action, and the response of    *)
(* the last call is kept in `last`.                                        *)
(***************************************************************************)
EXTENDS Integers, Sequences, FiniteSets, Bags, TLC

\* ------------------------------------------------------------------ bounds
NumUsers == 2
NumPaths == 2
NumModules == 3
NumResources == 2
MaxOrder == 2

\* ------------------------------------------------------- program constants
ResourceXp == 10
DefaultModuleXp == 50
DefaultPathXp == 100
SecondsPerMinute == 60
DefaultPassingScore == 70
DefaultQuizXp == 50
DefaultQuestionPoints == 10
PerfectScoreBonus == 25

NULL == -1

UserIds == 1..NumUsers
PathIds == 1..NumPaths
ModuleIds == 1..NumModules
ResourceIds == 1..NumResources
\* ids a request may name: the rows that exist and one that does not
PathArgs == 1..(NumPaths + 1)
ModuleArgs == 1..(NumModules + 1)
ResourceArgs == 1..(NumResources + 1)
TimeSpentInputs == {90}

VARIABLES
    users,                \* ids of the rows of table users
    role,                 \* User.role                      [UserIds -> STRING]
    streak_days,          \* User.streak_days               [UserIds -> Nat]
    last_active,          \* User.last_active, in hours     [UserIds -> Int]
    xp, points,           \* User.xp, User.points           [UserIds -> Int]
    now,                  \* datetime.utcnow(), in hours
    path_creator,         \* LearningPath.creator_id        [PathIds -> UserIds]
    module_path,          \* Module.learning_path_id        [ModuleIds -> PathIds]
    module_order,         \* Module.order                   [ModuleIds -> Nat]
    module_xp_reward,     \* Module.xp_reward               [ModuleIds -> Int]
    path_xp_reward,       \* LearningPath.xp_reward         [PathIds -> Int]
    resource_module,      \* Resource.module_id             [ResourceIds -> ModuleIds]
    quiz_questions,       \* the quiz's rows of table questions, a sequence
    quiz_passing_score,   \* Quiz.passing_score
    quiz_xp_reward,       \* Quiz.xp_reward
    enrolled_count,       \* LearningPath.enrolled_count    [PathIds -> Nat]
    user_progress,        \* table user_progress, a bag of rows
    resource_completions, \* table resource_completions, a bag of rows
    badges,               \* table badges: the names in the catalog
    user_badges,          \* table user_badges, a bag of rows
    quiz_attempts,        \* table quiz_attempts, a bag of rows
    comments,             \* table comments: the row of each id, a sequence
    user_status,          \* User.status                    [UserIds -> STRING]
    is_published,         \* LearningPath.is_published      [PathIds -> BOOLEAN]
    is_approved,          \* LearningPath.is_approved       [PathIds -> BOOLEAN]
    reports,              \* table reports: the row of each id, a sequence
    notifications,        \* table notifications, a bag of rows
    requests,             \* the requests in flight, each with its own session
    last                  \* the response of the last call

accountVars == <<users, role, streak_days, last_active>>
quizVars == <<quiz_questions, quiz_passing_score, quiz_xp_reward>>
contentVars == <<path_creator, module_path, module_order, resource_module,
                 module_xp_reward, path_xp_reward, quizVars>>
progressVars == <<enrolled_count, user_progress, resource_completions>>
badgeVars == <<badges, user_badges>>
activityVars == <<quiz_attempts, comments>>
moderationVars == <<user_status, is_published, is_approved, reports, notifications>>
userVars == <<accountVars, xp, points>>
vars == <<userVars, now, contentVars, progressVars, badgeVars, activityVars,
          moderationVars, requests, last>>
\* everything but the stored response
state == <<userVars, now, contentVars, progressVars, badgeVars, activityVars,
           moderationVars, requests>>

\* ----------------------------------------------------------------- helpers
Response(op, u, arg, status, message, data) ==
    [op |-> op, user |-> u, arg |-> arg, status |-> status,
     message |-> message, data |-> data]

RECURSIVE Gcd(_, _)
Gcd(a, b) == IF b = 0 THEN a ELSE Gcd(b, a % b)

\* a float percentage n/d kept exactly, in lowest terms
Ratio(n, d) == LET g == Gcd(n, d) IN [num |-> n \div g, den |-> d \div g]

\* orders are only compared with each other (order_by, >), and ids only for
\* equality: up to renaming, an assignment of orders is its sequence of ranks
DenseRanks(f) ==
    /\ f[1] = 0
    /\ \A i \in DOMAIN f : i > 1 => f[i] - f[i - 1] \in {0, 1}

Member(x, seq) == \E i \in 1..Len(seq) : seq[i] = x

\* Query.filter_by(user_id, learning_path_id) on user_progress
ProgressRows(u, p) ==
    {r \in BagToSet(user_progress) : r.user_id = u /\ r.learning_path_id = p}

\* Query.filter_by(user_id, resource_id) on resource_completions
CompletionRows(u, r) ==
    {c \in BagToSet(resource_completions) : c.user_id = u /\ c.resource_id = r}

ReplaceRow(table, old, new) == (table (-) SetToBag({old})) (+) SetToBag({new})

ModulesOf(p) == {m \in ModuleIds : module_path[m] = p}
ResourcesOf(p) == {r \in ResourceIds : module_path[resource_module[r]] = p}

\* .order_by(Module.order).first() over `cands`: NULL when empty, else a row of
\* least order (which one among equal orders is the database's choice)
FirstByOrder(cands) ==
    IF cands = {} THEN {NULL}
    ELSE {m \in cands : \A o \in cands : module_order[m] <= module_order[o]}

AddCompleted_Reset(list, id) == <<id>>

\* UserProgress.add_completed_module / add_completed_resource
AddCompleted(list, id) == IF Member(id, list) THEN list ELSE Append(list, id)

\* Module.query.filter(path == module.path, order > module.order)
LaterModules(m) ==
    {o \in ModulesOf(module_path[m]) : module_order[o] > module_order[m]}

NextModuleCandidates_Unordered(m) ==
    IF LaterModules(m) = {} THEN {NULL} ELSE LaterModules(m)

\* ... .order_by(Module.order).first()
NextModuleCandidates(m) == FirstByOrder(LaterModules(m))

\* UserProgress(user_id, learning_path_id, status='in_progress') with the
\* column defaults
NewProgress(u, p, first_module) ==
    [user_id |-> u, learning_path_id |-> p,
     current_module_id |-> first_module,
     completed_modules |-> <<>>, completed_resources |-> <<>>,
     progress_percentage |-> Ratio(0, 1), xp_earned |-> 0, time_spent |-> 0,
     status |-> "in_progress", last_accessed |-> now, completed_at |-> NULL]

\* -------------------------------------------------------- progress routes
AlreadyEnrolled_Never(u, p) == FALSE

\* enroll_in_path: "Check if already enrolled"
AlreadyEnrolled(u, p) == ProgressRows(u, p) # {}

AlreadyCompleted_Never(u, r) == FALSE

\* complete_resource: "Check if already completed"
AlreadyCompleted(u, r) == CompletionRows(u, r) # {}

\* POST /progress/enroll/<path_id>
enroll_in_path(u, p) ==
    IF p \notin PathIds
    THEN /\ last' = Response("enroll_in_path", u, p, 404, "Learning path not found", <<>>)
         /\ UNCHANGED state
    ELSE IF AlreadyEnrolled(u, p)
    THEN \E existing \in ProgressRows(u, p) :
         /\ last' = Response("enroll_in_path", u, p, 200, "Already enrolled", existing)
         /\ UNCHANGED state
    ELSE \E first_module \in FirstByOrder(ModulesOf(p)) :
         LET progress == NewProgress(u, p, first_module) IN
         /\ user_progress' = user_progress (+) SetToBag({progress})
         /\ enrolled_count' = [enrolled_count EXCEPT ![p] = @ + 1]
         /\ last' = Response("enroll_in_path", u, p, 201, "Successfully enrolled!", progress)
         /\ UNCHANGED <<userVars, now, contentVars, moderationVars, requests, resource_completions,
                        badgeVars, activityVars>>

ResourceProgress_Unmarked(progress, r, time_spent) ==
    [progress EXCEPT !.last_accessed = now]

\* the enrollment row after complete_resource touched it
ResourceProgress(progress, r, time_spent) ==
    LET done == AddCompleted(progress.completed_resources, r)
        total_resources == Cardinality(ResourcesOf(progress.learning_path_id))
    IN [progress EXCEPT
          !.completed_resources = done,
          !.last_accessed = now,
          !.xp_earned = @ + ResourceXp,
          !.time_spent = @ + (time_spent \div SecondsPerMinute),
          !.progress_percentage =
              IF total_resources > 0
              THEN Ratio(Len(done) * 100, total_resources) ELSE @]

\* POST /progress/complete-resource/<resource_id>
complete_resource(u, r, time_spent) ==
    IF r \notin ResourceIds
    THEN /\ last' = Response("complete_resource", u, r, 404, "Resource not found", <<>>)
         /\ UNCHANGED state
    ELSE IF AlreadyCompleted(u, r)
    THEN \E existing \in CompletionRows(u, r) :
         /\ last' = Response("complete_resource", u, r, 200, "Resource already completed", existing)
         /\ UNCHANGED state
    ELSE IF u \notin users
    THEN \* user is None: `user.xp += xp_earned` raises, nothing is committed
         /\ last' = Response("complete_resource", u, r, 500, "Internal Server Error", <<>>)
         /\ UNCHANGED state
    ELSE LET completion == [user_id |-> u, resource_id |-> r,
                            time_spent |-> time_spent, xp_earned |-> ResourceXp]
             p == module_path[resource_module[r]]
         IN
         /\ xp' = [xp EXCEPT ![u] = @ + ResourceXp]
         /\ IF ProgressRows(u, p) # {}
            THEN \E progress \in ProgressRows(u, p) :
                 user_progress' = ReplaceRow(user_progress, progress,
                                     ResourceProgress(progress, r, time_spent))
            ELSE UNCHANGED user_progress
         /\ resource_completions' = resource_completions (+) SetToBag({completion})
         /\ last' = Response("complete_resource", u, r, 201, "Resource completed!", completion)
         /\ UNCHANGED <<accountVars, points, now, contentVars, moderationVars, requests, enrolled_count,
                        badgeVars, activityVars>>

\* the enrollment row after complete_module marked module m, given the row
\* the next-module query returned (NULL: none)
ModuleProgress(progress, m, next_module) ==
    LET marked == [progress EXCEPT
                     !.completed_modules = AddCompleted(@, m),
                     !.last_accessed = now,
                     !.xp_earned = @ + module_xp_reward[m]]
    IN IF next_module # NULL
       THEN [marked EXCEPT !.current_module_id = next_module]
       ELSE [marked EXCEPT !.status = "completed",
                           !.completed_at = now,
                           !.progress_percentage = Ratio(100, 1)]

\* XP complete_module credits to the user
ModuleXpEarned(m, next_module) ==
    IF next_module # NULL THEN module_xp_reward[m]
    ELSE module_xp_reward[m] + path_xp_reward[module_path[m]]

\* POST /progress/complete-module/<module_id>
complete_module(u, m) ==
    IF m \notin ModuleIds
    THEN /\ last' = Response("complete_module", u, m, 404, "Module not found", <<>>)
         /\ UNCHANGED state
    ELSE IF ProgressRows(u, module_path[m]) = {}
    THEN /\ last' = Response("complete_module", u, m, 400, "Not enrolled in this learning path", <<>>)
         /\ UNCHANGED state
    ELSE \E progress \in ProgressRows(u, module_path[m]) :
         IF Member(m, progress.completed_modules)
         THEN /\ last' = Response("complete_module", u, m, 200, "Module already completed", <<>>)
              /\ UNCHANGED state
         ELSE IF u \notin users
         THEN \* user is None: `user.xp += xp_earned` raises before the commit
              /\ last' = Response("complete_module", u, m, 500, "Internal Server Error", <<>>)
              /\ UNCHANGED state
         ELSE \E next_module \in NextModuleCandidates(m) :
              LET new == ModuleProgress(progress, m, next_module) IN
              /\ user_progress' = ReplaceRow(user_progress, progress, new)
              /\ xp' = [xp EXCEPT ![u] = @ + ModuleXpEarned(m, next_module)]
              /\ last' = Response("complete_module", u, m, 200, "Module completed!",
                                  [xp_earned |-> ModuleXpEarned(m, next_module),
                                   progress |-> new])
              /\ UNCHANGED <<accountVars, points, now, contentVars, moderationVars, requests,
                             enrolled_count, resource_completions,
                             badgeVars, activityVars>>

\* ------------------------------------------------------ progress: the spec
\* the column defaults of User; the last id is an account that was deleted
\* while its token is still valid
InitUsers ==
    /\ users = UserIds \ {NumUsers}
    /\ role = [u \in UserIds |-> "learner"]
    /\ xp = [u \in UserIds |-> 0]
    /\ points = [u \in UserIds |-> 0]

SeededBadges ==
    {"First Steps", "Week Warrior", "Quiz Master", "Social Butterfly",
     "Code Ninja", "Mentor", "Path Finder", "Early Bird", "Streak Legend",
     "Data Science Month"}

InitNoActivity ==
    /\ badges = SeededBadges
    /\ user_badges = EmptyBag
    /\ quiz_attempts = EmptyBag
    /\ comments = <<>>

\* a quiz as Quiz() makes it, with no question yet
InitEmptyQuiz ==
    /\ quiz_questions = <<>>
    /\ quiz_passing_score = DefaultPassingScore
    /\ quiz_xp_reward = DefaultQuizXp

\* accounts active, paths published and approved, nothing reported, nobody
\* notified, no request in flight
InitNoModeration ==
    /\ user_status = [u \in DOMAIN role |-> "active"]
    /\ is_published = [p \in PathIds |-> TRUE]
    /\ is_approved = [p \in PathIds |-> TRUE]
    /\ reports = <<>>
    /\ notifications = EmptyBag
    /\ requests = <<>>

\* the column defaults of Module.xp_reward and LearningPath.xp_reward
InitDefaultRewards ==
    /\ module_xp_reward = [m \in ModuleIds |-> DefaultModuleXp]
    /\ path_xp_reward = [p \in PathIds |-> DefaultPathXp]

InitNoProgress ==
    /\ enrolled_count = [p \in PathIds |-> 0]
    /\ user_progress = EmptyBag
    /\ resource_completions = EmptyBag

InitProgress ==
    /\ InitUsers
    /\ streak_days = [u \in UserIds |-> 0]
    /\ last_active = [u \in UserIds |-> 0]
    /\ now = 0
    /\ InitNoActivity
    /\ InitNoProgress
    /\ InitNoModeration
    /\ InitEmptyQuiz
    /\ path_creator = [p \in PathIds |-> 1]
    /\ module_path \in {[m \in ModuleIds |-> 1],
                         [m \in ModuleIds |-> IF m < NumModules THEN 1 ELSE NumPaths]}
    /\ module_order \in {f \in [ModuleIds -> 0..MaxOrder] : DenseRanks(f)}
    /\ InitDefaultRewards
    /\ resource_module = [r \in ResourceIds |-> IF r = 1 THEN 1 ELSE NumModules]
    /\ last = Response("init", 0, 0, 0, "", <<>>)

NextProgress ==
    \/ \E u \in UserIds, p \in PathArgs : enroll_in_path(u, p)
    \/ \E u \in UserIds, r \in ResourceArgs, t \in TimeSpentInputs :
          complete_resource(u, r, t)
    \/ \E u \in UserIds, m \in ModuleArgs : complete_module(u, m)

SpecProgress == InitProgress /\ [][NextProgress]_vars

\* ------------------------------------------------ rewards: specification
\* the xp_reward a contributor gave a module or a path: create_learning_path
\* and add_module store data.get('xp_reward', default) as it comes
RewardInputs(default) == {default, 0 - default}

\* as InitProgress, with one path of modules ordered by id and the rewards
\* their creator chose
InitRewards ==
    /\ InitUsers
    /\ streak_days = [u \in UserIds |-> 0]
    /\ last_active = [u \in UserIds |-> 0]
    /\ now = 0
    /\ InitNoActivity
    /\ InitNoProgress
    /\ InitNoModeration
    /\ InitEmptyQuiz
    /\ path_creator = [p \in PathIds |-> 1]
    /\ module_path = [m \in ModuleIds |-> 1]
    /\ module_order = [m \in ModuleIds |-> IF m <= MaxOrder THEN m ELSE MaxOrder]
    /\ module_xp_reward \in [ModuleIds -> RewardInputs(DefaultModuleXp)]
    /\ path_xp_reward \in [PathIds -> RewardInputs(DefaultPathXp)]
    /\ resource_module = [r \in ResourceIds |-> IF r = 1 THEN 1 ELSE NumModules]
    /\ last = Response("init", 0, 0, 0, "", <<>>)

NextRewards ==
    \/ \E u \in users : enroll_in_path(u, 1)
    \/ \E u \in users, r \in ResourceIds : complete_resource(u, r, 0)
    \/ \E u \in users, m \in ModuleIds : complete_module(u, m)

SpecRewards == InitRewards /\ [][NextRewards]_vars

\* C23 (as claimed): no step lowers a user's xp, points or streak_days,
\* except that a streak update may set streak_days to 1
C23_Monotonic ==
    [][ \A u \in DOMAIN xp :
           /\ xp'[u] >= xp[u]
           /\ points'[u] >= points[u]
           /\ \/ streak_days'[u] >= streak_days[u]
              \/ /\ streak_days'[u] = 1
                 /\ last'.op \in {"streak_update", "update_user_streak"} ]_vars

\* ------------------------------------------------- progress: the properties
RECURSIVE SumCopies(_, _)
SumCopies(S, B) ==
    IF S = {} THEN 0
    ELSE LET x == CHOOSE y \in S : TRUE
         IN CopiesIn(x, B) + SumCopies(S \ {x}, B)

\* this step is the call op(u, arg): a call is answered at one instant
Called(op, u, arg) ==
    /\ last'.op = op /\ last'.user = u /\ last'.arg = arg
    /\ now' = now

\* C2: the first complete_resource of a (user, resource) awards the 10 XP and
\* records the completion; every later one answers 200 with the row recorded
\* then and changes neither the user's xp, nor a completion, nor an
\* enrollment; no (user, resource) ever has two ResourceCompletion rows.
C2_CompleteResourceOnce ==
    [][\A u \in UserIds, r \in ResourceIds :
        /\ SumCopies(CompletionRows(u, r)', resource_completions') <= 1
        /\ Called("complete_resource", u, r) =>
             IF CompletionRows(u, r) # {}
             THEN /\ last'.status = 200
                  /\ last'.data \in CompletionRows(u, r)
                  /\ UNCHANGED <<xp, points, user_progress, resource_completions,
                                 enrolled_count>>
             ELSE u \in users =>
                  /\ last'.status = 201
                  /\ xp' = [xp EXCEPT ![u] = @ + 10]
                  /\ CompletionRows(u, r)' = {last'.data}
                  /\ last'.data.xp_earned = 10
      ]_vars

\* a second complete_resource was answered from the row of the first, by a
\* user who is enrolled in the resource's path
C2_Witness ==
    /\ last.op = "complete_resource" /\ last.status = 200
    /\ xp[last.user] >= 10
    /\ ProgressRows(last.user, module_path[resource_module[last.arg]]) # {}

IsLastModule(m) ==
    \A o \in ModuleIds :
        module_path[o] = module_path[m] => module_order[o] <= module_order[m]

Completing(u, m) ==
    /\ Called("complete_module", u, m)
    /\ last'.status = 200
    /\ last'.message = "Module completed!"

\* C3 (as claimed): complete_module on the last module of a path completes
\* the enrollment at 100 percent and credits the module's xp_reward plus the
\* path's xp_reward, and no enrollment is granted the path bonus twice: the
\* bonus never goes to an enrollment that is already completed.
C3_PathBonusOnce ==
    [][\A u \in UserIds, m \in ModuleIds :
        (Completing(u, m) /\ IsLastModule(m)) =>
            /\ \A row \in ProgressRows(u, module_path[m])' :
                  /\ row.status = "completed"
                  /\ row.progress_percentage = [num |-> 100, den |-> 1]
            /\ xp'[u] = xp[u] + 50 + 100
            /\ \A row \in ProgressRows(u, module_path[m]) :
                  row.status # "completed"
      ]_vars

\* C4: complete_module on a module that has a module of greater order in its
\* path leaves the status as it was and moves current_module_id to a module
\* of the smallest greater order; on a module with none it sets status
\* completed, completed_at and 100 percent. A fresh enrollment is in_progress,
\* so in a two-module path module 1 keeps in_progress and points at module 2,
\* and module 2 completes the path.
C4_NextModule ==
    [][\A u \in UserIds, m \in ModuleIds :
        Completing(u, m) =>
          \A old \in ProgressRows(u, module_path[m]) :
          \A row \in ProgressRows(u, module_path[m])' :
            IF \E o \in ModuleIds : /\ module_path[o] = module_path[m]
                                    /\ module_order[o] > module_order[m]
            THEN /\ row.status = old.status
                 /\ row.completed_at = old.completed_at
                 /\ module_path[row.current_module_id] = module_path[m]
                 /\ module_order[row.current_module_id] > module_order[m]
                 /\ \A o \in ModuleIds :
                       (/\ module_path[o] = module_path[m]
                        /\ module_order[o] > module_order[m])
                       => module_order[row.current_module_id] <= module_order[o]
            ELSE /\ row.status = "completed"
                 /\ row.completed_at # NULL
                 /\ row.progress_percentage = [num |-> 100, den |-> 1]
      ]_vars /\
    [][\A u \in UserIds, p \in PathIds :
        (Called("enroll_in_path", u, p) /\ last'.status = 201) =>
            \A row \in ProgressRows(u, p)' : row.status = "in_progress"
      ]_vars

\* the scenario has run: a path of exactly two modules, module 1 before
\* module 2, completed in that order
C4_Witness ==
    \E row \in BagToSet(user_progress) :
        /\ {m \in ModuleIds : module_path[m] = row.learning_path_id} = {1, 2}
        /\ module_order[1] < module_order[2]
        /\ row.completed_modules = <<1, 2>>
        /\ row.status = "completed"
        /\ row.current_module_id = 2

\* C5: no (user, path) ever has two UserProgress rows; the first enroll makes
\* the row, with current_module_id a module of the path of lowest order (none
\* when the path has no module), and adds 1 to the path's enrolled_count;
\* every later enroll answers 200 with that row and changes nothing.
C5_EnrollIdempotent ==
    [][\A u \in UserIds, p \in PathIds :
        /\ SumCopies(ProgressRows(u, p)', user_progress') <= 1
        /\ Called("enroll_in_path", u, p) =>
             IF ProgressRows(u, p) # {}
             THEN /\ last'.status = 200
                  /\ last'.data \in ProgressRows(u, p)
                  /\ UNCHANGED <<user_progress, enrolled_count, xp, points>>
             ELSE /\ last'.status = 201
                  /\ ProgressRows(u, p)' = {last'.data}
                  /\ enrolled_count' = [enrolled_count EXCEPT ![p] = @ + 1]
                  /\ LET cur == last'.data.current_module_id
                         mine == {m \in ModuleIds : module_path[m] = p}
                     IN IF mine = {} THEN cur = NULL
                        ELSE /\ cur \in mine
                             /\ \A o \in mine : module_order[cur] <= module_order[o]
      ]_vars

\* both callers are enrolled in one path, and a re-enroll was answered 200
C5_Witness ==
    /\ last.op = "enroll_in_path" /\ last.status = 200
    /\ \E p \in PathIds : enrolled_count[p] = 2 /\ last.arg = p

\* ------------------------------------------------------------ streak service
HoursPerDay == 24
StreakResetHours == 48
BadgeXpBonus == 50
BadgePointsBonus == 25
MaxHours == 50
TickSteps == {1, 23, 24}
StreakInputs == {6, 7, 30, 45, 100}

StreakAfter_Advancing(u) ==
    IF last_active[u] = NULL
    THEN [streak_days |-> 1, last_active |-> now, message |-> "started"]
    ELSE LET hours_diff == now - last_active[u] IN
         IF hours_diff < HoursPerDay
         THEN [streak_days |-> streak_days[u], last_active |-> now,
               message |-> "already counted"]
         ELSE IF HoursPerDay <= hours_diff /\ hours_diff < StreakResetHours
         THEN [streak_days |-> streak_days[u] + 1, last_active |-> now,
               message |-> "increased"]
         ELSE [streak_days |-> 1, last_active |-> now, message |-> "reset"]

StreakAfter_Inclusive(u) ==
    IF last_active[u] = NULL
    THEN [streak_days |-> 1, last_active |-> now, message |-> "started"]
    ELSE LET hours_diff == now - last_active[u] IN
         IF hours_diff <= HoursPerDay
         THEN [streak_days |-> streak_days[u], last_active |-> last_active[u],
               message |-> "already counted"]
         ELSE IF HoursPerDay <= hours_diff /\ hours_diff < StreakResetHours
         THEN [streak_days |-> streak_days[u] + 1, last_active |-> now,
               message |-> "increased"]
         ELSE [streak_days |-> 1, last_active |-> now, message |-> "reset"]

\* update_user_streak: the user's streak_days and last_active after the call
StreakAfter(u) ==
    IF last_active[u] = NULL
    THEN [streak_days |-> 1, last_active |-> now, message |-> "started"]
    ELSE LET hours_diff == now - last_active[u] IN
         IF hours_diff < HoursPerDay
         THEN [streak_days |-> streak_days[u], last_active |-> last_active[u],
               message |-> "already counted"]
         ELSE IF HoursPerDay <= hours_diff /\ hours_diff < StreakResetHours
         THEN [streak_days |-> streak_days[u] + 1, last_active |-> now,
               message |-> "increased"]
         ELSE [streak_days |-> 1, last_active |-> now, message |-> "reset"]

\* update_user_streak(user_id), called on its own
update_user_streak(u) ==
    IF u \notin users
    THEN /\ last' = Response("update_user_streak", u, NULL, 404, "None", <<>>)
         /\ UNCHANGED state
    ELSE LET after == StreakAfter(u) IN
         /\ streak_days' = [streak_days EXCEPT ![u] = after.streak_days]
         /\ last_active' = [last_active EXCEPT ![u] = after.last_active]
         /\ last' = Response("update_user_streak", u, NULL, 200, after.message,
                             [streak_days |-> after.streak_days])
         /\ UNCHANGED <<users, role, xp, points, now, contentVars, moderationVars, requests, progressVars,
                        badgeVars, activityVars>>

Milestones ==
    << [days |-> 7, xp |-> 50, badge_name |-> "7 Day Streak"],
       [days |-> 30, xp |-> 200, badge_name |-> "30 Day Streak"],
       [days |-> 100, xp |-> 500, badge_name |-> "100 Day Streak"] >>

UserBadgeRow(u, b) == [user_id |-> u, badge_id |-> b]

HasBadge_Never(rows, u, b) == FALSE

\* UserBadge.query.filter_by(user_id, badge_id).first() is not None
HasBadge(rows, u, b) == BagIn(UserBadgeRow(u, b), rows)

\* the loop of award_streak_bonus from milestone i on; acc holds the session:
\* the catalog, the UserBadge rows, the user's xp and the bonuses so far
RECURSIVE AwardMilestones(_, _, _, _)
AwardMilestones(i, u, s, acc) ==
    IF i > Len(Milestones) THEN acc
    ELSE LET ms == Milestones[i] IN
         IF s >= ms.days
         THEN LET catalog == acc.badges \cup {ms.badge_name} IN
              IF ~HasBadge(acc.user_badges, u, ms.badge_name)
              THEN AwardMilestones(i + 1, u, s,
                     [badges |-> catalog,
                      user_badges |-> acc.user_badges
                                      (+) SetToBag({UserBadgeRow(u, ms.badge_name)}),
                      xp |-> IF u \in users THEN acc.xp + ms.xp ELSE acc.xp,
                      bonuses |-> IF u \in users THEN Append(acc.bonuses, ms.days)
                                  ELSE acc.bonuses])
              ELSE AwardMilestones(i + 1, u, s, [acc EXCEPT !.badges = catalog])
         ELSE AwardMilestones(i + 1, u, s, acc)

\* the session of award_streak_bonus(u, s) at its end, from committed tables
\* in which the user's streak columns may have just been written
StreakBonus(u, s) ==
    AwardMilestones(1, u, s, [badges |-> badges, user_badges |-> user_badges,
                              xp |-> xp[u], bonuses |-> <<>>])

\* award_streak_bonus(user_id, streak_days), called on its own: the session
\* is committed only when a bonus was awarded
award_streak_bonus(u, s) ==
    LET done == StreakBonus(u, s) IN
    /\ last' = Response("award_streak_bonus", u, s, 200, "", done.bonuses)
    /\ IF done.bonuses # <<>>
       THEN /\ badges' = done.badges
            /\ user_badges' = done.user_badges
            /\ xp' = [xp EXCEPT ![u] = done.xp]
            /\ UNCHANGED <<accountVars, points, now, contentVars, moderationVars, requests, progressVars,
                           activityVars>>
       ELSE UNCHANGED state

\* POST /gamification/streak/update
streak_update(u) ==
    IF u \notin users
    THEN /\ last' = Response("streak_update", u, NULL, 404, "User not found", <<>>)
         /\ UNCHANGED state
    ELSE LET after == StreakAfter(u)
             done == StreakBonus(u, after.streak_days)
         IN
         /\ streak_days' = [streak_days EXCEPT ![u] = after.streak_days]
         /\ last_active' = [last_active EXCEPT ![u] = after.last_active]
         /\ IF done.bonuses # <<>>
            THEN /\ badges' = done.badges
                 /\ user_badges' = done.user_badges
                 /\ xp' = [xp EXCEPT ![u] = done.xp]
            ELSE UNCHANGED <<badges, user_badges, xp>>
         /\ last' = Response("streak_update", u, NULL, 200, after.message,
                             [streak_days |-> after.streak_days,
                              bonuses |-> done.bonuses])
         /\ UNCHANGED <<users, role, points, now, contentVars, moderationVars, requests, progressVars,
                        activityVars>>

\* the clock moves on between requests
Tick(d) ==
    /\ now + d <= MaxHours
    /\ now' = now + d
    /\ UNCHANGED <<userVars, contentVars, moderationVars, requests, progressVars, badgeVars,
                   activityVars, last>>

\* the accounts of the seed data: a streak of any length, no badge awarded
InitStreak ==
    /\ InitUsers
    /\ streak_days \in [UserIds -> {0, 6, 29}]
    /\ last_active \in [UserIds -> {NULL, 0}]
    /\ \A u \in UserIds \ users : streak_days[u] = 0 /\ last_active[u] = 0
    /\ now = 0
    /\ InitNoActivity
    /\ InitNoProgress
    /\ InitNoModeration
    /\ InitEmptyQuiz
    /\ path_creator = [p \in PathIds |-> 1]
    /\ module_path = [m \in ModuleIds |-> 1]
    /\ module_order = [m \in ModuleIds |-> 0]
    /\ InitDefaultRewards
    /\ resource_module = [r \in ResourceIds |-> 1]
    /\ last = Response("init", 0, 0, 0, "", <<>>)

NextStreak ==
    \/ \E d \in TickSteps : Tick(d)
    \/ \E u \in UserIds : update_user_streak(u)
    \/ \E u \in UserIds, s \in StreakInputs : award_streak_bonus(u, s)
    \/ \E u \in UserIds : streak_update(u)

SpecStreak == InitStreak /\ [][NextStreak]_vars

\* ------------------------------------------------- streaks: the properties
\* C1: update_user_streak on an existing user whose last_active is set, h
\* hours after it: under 24 hours streak_days and last_active stay as they
\* are; from 24 and under 48 streak_days grows by one and last_active becomes
\* now; from 48 on streak_days becomes 1 and last_active becomes now.
C1_StreakWindows ==
    [][\A u \in users :
        (Called("update_user_streak", u, NULL) /\ last_active[u] # NULL) =>
          LET h == now - last_active[u] IN
          /\ h < 24 => /\ streak_days'[u] = streak_days[u]
                       /\ last_active'[u] = last_active[u]
          /\ (24 <= h /\ h < 48) => /\ streak_days'[u] = streak_days[u] + 1
                                    /\ last_active'[u] = now
          /\ h >= 48 => /\ streak_days'[u] = 1
                        /\ last_active'[u] = now
      ]_vars

\* a call exactly 24 hours after the last counted one raised a streak of 6
\* to 7
C1_Witness ==
    /\ last.op = "update_user_streak" /\ last.message = "increased"
    /\ streak_days[last.user] = 7
    /\ last_active[last.user] = 24
    /\ now = 24

StreakBadges == {"7 Day Streak", "30 Day Streak", "100 Day Streak"}

\* the milestones the claim lists that s reaches and whose badge u lacks
MilestonesDue(u, s) ==
    {ms \in {<<7, 50, "7 Day Streak">>, <<30, 200, "30 Day Streak">>,
             <<100, 500, "100 Day Streak">>} :
        /\ s >= ms[1]
        /\ ~BagIn([user_id |-> u, badge_id |-> ms[3]], user_badges)}

RECURSIVE SumXp(_)
SumXp(S) ==
    IF S = {} THEN 0
    ELSE LET x == CHOOSE y \in S : TRUE IN x[2] + SumXp(S \ {x})

\* C7: award_streak_bonus(u, s) for an existing user adds one UserBadge row
\* and the milestone's XP for each milestone s reaches whose badge the user
\* lacks, and nothing else; with s = 45 and no streak badge that is the 7 and
\* 30 day badges and 250 XP, not the 100 day badge; the same call made again
\* adds no row and leaves xp as it is.
C7_StreakMilestones ==
    [][\A u \in users, s \in StreakInputs :
        Called("award_streak_bonus", u, s) =>
          LET due == MilestonesDue(u, s) IN
          /\ user_badges' = user_badges (+)
                SetToBag({[user_id |-> u, badge_id |-> ms[3]] : ms \in due})
          /\ xp' = [xp EXCEPT ![u] = @ + SumXp(due)]
          /\ points' = points
          /\ (s = 45 /\ \A b \in StreakBadges :
                          ~BagIn([user_id |-> u, badge_id |-> b], user_badges))
             => /\ xp'[u] = xp[u] + 250
                /\ BagToSet(user_badges') \ BagToSet(user_badges) =
                     {[user_id |-> u, badge_id |-> "7 Day Streak"],
                      [user_id |-> u, badge_id |-> "30 Day Streak"]}
          /\ (last.op = "award_streak_bonus" /\ last.user = u /\ last.arg = s)
             => UNCHANGED <<user_badges, xp>>
      ]_vars

\* the user had no streak badge, was called with 45, and holds the 7 and 30
\* day badges and 250 XP
C7_Witness ==
    /\ last.op = "award_streak_bonus" /\ last.arg = 45
    /\ last.data = <<7, 30>>
    /\ xp[last.user] = 250
    /\ BagToSet(user_badges) =
         {[user_id |-> last.user, badge_id |-> "7 Day Streak"],
          [user_id |-> last.user, badge_id |-> "30 Day Streak"]}

\* -------------------------------------------------------------- quiz routes
MaxQuestions == 3
MaxAnswers == 3
MaxAttempts == 2
QuizIds == {1}
QuizArgs == {1, 2}
AnswerEntries == [question_id : 1..MaxQuestions, answer : {0, 1}]
AnswerLists == UNION {[1..n -> AnswerEntries] : n \in 0..MaxAnswers}
\* the request body: with or without the key 'answers'
Bodies ==
    {[has_answers |-> FALSE, answers |-> <<>>]}
    \cup {[has_answers |-> TRUE, answers |-> a] : a \in AnswerLists}

\* next((a for a in user_answers if a.get('question_id') == question.id), None):
\* the position of the first answer to the question, 0 for None
FirstAnswer(user_answers, qid) ==
    LET hits == {i \in DOMAIN user_answers : user_answers[i].question_id = qid}
    IN IF hits = {} THEN 0
       ELSE CHOOSE i \in hits : \A j \in hits : i <= j

\* the grading loop of submit_quiz from question i on
RECURSIVE Grade(_, _, _, _)
Grade(i, questions, user_answers, acc) ==
    IF i > Len(questions) THEN acc
    ELSE LET question == questions[i]
             at == FirstAnswer(user_answers, question.id)
         IN IF at = 0 THEN Grade(i + 1, questions, user_answers, acc)
            ELSE LET is_correct ==
                        user_answers[at].answer = question.correct_answer
                 IN Grade(i + 1, questions, user_answers,
                      [correct_count |-> acc.correct_count
                                         + (IF is_correct THEN 1 ELSE 0),
                       total_points |-> acc.total_points
                                        + (IF is_correct THEN question.points ELSE 0),
                       results |-> Append(acc.results,
                                     [question_id |-> question.id,
                                      is_correct |-> is_correct,
                                      points_earned |->
                                        IF is_correct THEN question.points ELSE 0])])

\* int((correct_count / len(questions) * 100)) if questions else 0: int()
\* truncates, and the float product truncates to the exact quotient's floor
\* for every quiz of fewer than 50 questions
Score(correct_count, total_questions) ==
    IF total_questions > 0
    THEN (correct_count * 100) \div total_questions
    ELSE 0

Passed_Strict(score) == score > quiz_passing_score

\* passed = score >= quiz.passing_score
Passed(score) == score >= quiz_passing_score

\* xp_earned of submit_quiz
QuizXpEarned(score) ==
    IF Passed(score)
    THEN quiz_xp_reward + (IF score = 100 THEN PerfectScoreBonus ELSE 0)
    ELSE 0

\* POST /quizzes/<quiz_id>/submit; the attempt's answers, time_taken and
\* started_at columns are written once and read by nothing modelled here
submit_quiz(u, q, body) ==
    IF u \notin users
    THEN /\ last' = Response("submit_quiz", u, q, 404, "User not found", <<>>)
         /\ UNCHANGED state
    ELSE IF q \notin QuizIds
    THEN /\ last' = Response("submit_quiz", u, q, 404, "Quiz not found", <<>>)
         /\ UNCHANGED state
    ELSE IF ~body.has_answers
    THEN /\ last' = Response("submit_quiz", u, q, 400, "Answers are required", <<>>)
         /\ UNCHANGED state
    ELSE LET graded == Grade(1, quiz_questions, body.answers,
                             [correct_count |-> 0, total_points |-> 0,
                              results |-> <<>>])
             total_questions == Len(quiz_questions)
             score == Score(graded.correct_count, total_questions)
             passed == Passed(score)
             xp_earned == QuizXpEarned(score)
             attempt == [user_id |-> u, quiz_id |-> q, score |-> score,
                         correct_answers |-> graded.correct_count,
                         total_questions |-> total_questions,
                         passed |-> passed, xp_earned |-> xp_earned,
                         completed_at |-> now]
         IN
         /\ BagCardinality(quiz_attempts) < MaxAttempts
         /\ xp' = IF passed THEN [xp EXCEPT ![u] = @ + xp_earned] ELSE xp
         /\ points' = IF passed
                      THEN [points EXCEPT ![u] = @ + graded.total_points]
                      ELSE points
         /\ quiz_attempts' = quiz_attempts (+) SetToBag({attempt})
         /\ last' = Response("submit_quiz", u, q, 200, "",
                       [score |-> score, passed |-> passed,
                        correct_answers |-> graded.correct_count,
                        total_questions |-> total_questions,
                        xp_earned |-> xp_earned,
                        points_earned |-> graded.total_points,
                        results |-> graded.results])
         /\ UNCHANGED <<accountVars, now, contentVars, moderationVars, requests, progressVars, badgeVars,
                        comments>>

\* the quizzes an author can have made: up to MaxQuestions questions with
\* ids in creation order, each worth the default points or half of them
QuizQuestions ==
    UNION {[1..n -> [id : 1..MaxQuestions, correct_answer : {1},
                     points : {DefaultQuestionPoints, DefaultQuestionPoints \div 2}]]
           : n \in 0..MaxQuestions}

InitQuiz ==
    /\ InitUsers
    /\ streak_days = [u \in UserIds |-> 0]
    /\ last_active = [u \in UserIds |-> 0]
    /\ now = 0
    /\ InitNoActivity
    /\ InitNoProgress
    /\ InitNoModeration
    /\ path_creator = [p \in PathIds |-> 1]
    /\ module_path = [m \in ModuleIds |-> 1]
    /\ module_order = [m \in ModuleIds |-> 0]
    /\ InitDefaultRewards
    /\ resource_module = [r \in ResourceIds |-> 1]
    /\ quiz_questions \in {qs \in QuizQuestions : \A i \in DOMAIN qs : qs[i].id = i}
    /\ quiz_passing_score \in {67, DefaultPassingScore, 100}
    /\ quiz_xp_reward = DefaultQuizXp
    /\ last = Response("init", 0, 0, 0, "", <<>>)

NextQuiz ==
    \E u \in UserIds, q \in QuizArgs, body \in Bodies : submit_quiz(u, q, body)

SpecQuiz == InitQuiz /\ [][NextQuiz]_vars

\* --------------------------------------------------- quizzes: the properties
\* C9 (as claimed): the score of every recorded attempt is correct_answers /
\* total_questions x 100 rounded to the nearest integer, and 0 for a quiz
\* with no questions.
C9_ScoreRounded ==
    \A a \in BagToSet(quiz_attempts) :
        IF a.total_questions = 0 THEN a.score = 0
        ELSE LET exact == a.correct_answers * 100
                 shown == a.score * a.total_questions
             IN /\ 2 * (exact - shown) <= a.total_questions
                /\ 2 * (shown - exact) <= a.total_questions

RECURSIVE CorrectPoints(_)
CorrectPoints(results) ==
    IF results = <<>> THEN 0
    ELSE (IF Head(results).is_correct
          THEN quiz_questions[Head(results).question_id].points ELSE 0)
         + CorrectPoints(Tail(results))

\* C10: every graded submission passes exactly when its score reaches the
\* quiz's passing_score; a passed one adds the quiz's xp_reward, and 25 more
\* at score 100, to the user's xp and the points of the correctly answered
\* questions to the user's points; a failed one changes neither and earns 0;
\* either way exactly one QuizAttempt row is added and its xp_earned is the
\* XP the user was credited.
C10_SubmitQuiz ==
    [][\A u \in users, q \in QuizIds :
        (Called("submit_quiz", u, q) /\ last'.status = 200) =>
          LET r == last'.data IN
          /\ r.passed <=> r.score >= quiz_passing_score
          /\ IF r.passed
             THEN /\ xp' = [xp EXCEPT ![u] =
                              @ + quiz_xp_reward + (IF r.score = 100 THEN 25 ELSE 0)]
                  /\ points' = [points EXCEPT ![u] = @ + CorrectPoints(r.results)]
             ELSE /\ xp' = xp
                  /\ points' = points
                  /\ r.xp_earned = 0
          /\ \E row \in BagToSet(quiz_attempts') :
                /\ quiz_attempts' = quiz_attempts (+) SetToBag({row})
                /\ row.user_id = u /\ row.quiz_id = q
                /\ row.score = r.score /\ row.passed = r.passed
                /\ row.xp_earned = xp'[u] - xp[u]
                /\ row.xp_earned = r.xp_earned
      ]_vars

\* a failed attempt was followed by a perfect one of three questions, which
\* earned the reward, the bonus and the points of all three
C10_Witness ==
    /\ last.op = "submit_quiz" /\ last.status = 200
    /\ last.data.score = 100 /\ last.data.passed
    /\ last.data.total_questions = 3
    /\ xp[last.user] = 75
    /\ points[last.user] = CorrectPoints(last.data.results)
    /\ points[last.user] > 0
    /\ \E a \in BagToSet(quiz_attempts) : ~a.passed /\ a.xp_earned = 0

\* ------------------------------------------------------------ badge check
RECURSIVE SumOver(_, _, _)
\* sum(weight[row] for row in table), every copy of a row counted
SumOver(rows, table, weight) ==
    IF rows = {} THEN 0
    ELSE LET row == CHOOSE x \in rows : TRUE
         IN CopiesIn(row, table) * weight[row] + SumOver(rows \ {row}, table, weight)

\* sum(len(p.get_completed_resources()) for p in progress_records)
TotalCompletedResources(u) ==
    LET mine == {row \in BagToSet(user_progress) : row.user_id = u}
    IN SumOver(mine, user_progress,
               [row \in mine |-> Len(row.completed_resources)])

\* UserProgress.query.filter_by(user_id, status='completed').count()
CompletedPaths(u) ==
    LET mine == {row \in BagToSet(user_progress) :
                    row.user_id = u /\ row.status = "completed"}
    IN SumOver(mine, user_progress, [row \in mine |-> 1])

\* QuizAttempt.query.filter_by(user_id).filter(score == 100).count()
PerfectQuizzes(u) ==
    LET mine == {a \in BagToSet(quiz_attempts) : a.user_id = u /\ a.score = 100}
    IN SumOver(mine, quiz_attempts, [a \in mine |-> 1])

\* a row of table comments
CommentRow(u, path, resource, parent, content) ==
    [user_id |-> u, learning_path_id |-> path, resource_id |-> resource,
     parent_id |-> parent, content |-> content, is_deleted |-> FALSE,
     created_at |-> now]

\* Comment.query.filter_by(user_id=user_id).count()
CommentCount(u) == Cardinality({i \in DOMAIN comments : comments[i].user_id = u})

\* LearningPath.query.filter_by(creator_id=user_id).count()
CreatedPaths(u) == Cardinality({p \in PathIds : path_creator[p] = u})

\* the eight rules of check_and_award_badges, in the order it tries them
BadgeRules(u) ==
    << [name |-> "First Steps", met |-> TotalCompletedResources(u) >= 1],
       [name |-> "Path Finder", met |-> CompletedPaths(u) >= 1],
       [name |-> "Week Warrior", met |-> streak_days[u] >= 7],
       [name |-> "Streak Legend", met |-> streak_days[u] >= 30],
       [name |-> "Quiz Master", met |-> PerfectQuizzes(u) >= 5],
       [name |-> "Social Butterfly", met |-> CommentCount(u) >= 10],
       [name |-> "Code Ninja", met |-> TotalCompletedResources(u) >= 50],
       [name |-> "Mentor", met |-> /\ role[u] \in {"contributor", "admin"}
                                   /\ CreatedPaths(u) >= 1] >>

AlreadyEarned_Never(existing, badge) == FALSE

\* try_award: badge.id in existing
AlreadyEarned(existing, badge) == badge \in existing

\* the rules from rule i on, each met one passed to try_award; acc holds
\* `existing` and `awarded`
RECURSIVE TryAwards(_, _, _)
TryAwards(i, rules, acc) ==
    IF i > Len(rules) THEN acc
    ELSE LET rule == rules[i] IN
         IF /\ rule.met
            /\ rule.name \in badges
            /\ ~AlreadyEarned(acc.existing, rule.name)
         THEN TryAwards(i + 1, rules,
                        [existing |-> acc.existing \cup {rule.name},
                         awarded |-> Append(acc.awarded, rule.name)])
         ELSE TryAwards(i + 1, rules, acc)

BadgeXp_Flat(awarded) == BadgeXpBonus

\* xp_bonus = len(awarded) * 50
BadgeXp(awarded) == Len(awarded) * BadgeXpBonus

\* POST /gamification/badges/check
check_and_award_badges(u) ==
    IF u \notin users
    THEN /\ last' = Response("check_and_award_badges", u, NULL, 404,
                             "User not found", <<>>)
         /\ UNCHANGED state
    ELSE LET existing == {row.badge_id : row \in
                            {x \in BagToSet(user_badges) : x.user_id = u}}
             done == TryAwards(1, BadgeRules(u),
                               [existing |-> existing, awarded |-> <<>>])
             awarded == done.awarded
         IN
         /\ last' = Response("check_and_award_badges", u, NULL, 200, "",
                       [new_badges |-> awarded,
                        total_badges |-> Cardinality(done.existing),
                        xp_bonus |-> IF awarded # <<>> THEN Len(awarded) * BadgeXpBonus
                                     ELSE 0])
         /\ IF awarded # <<>>
            THEN /\ user_badges' = user_badges (+)
                      SetToBag({UserBadgeRow(u, awarded[i]) : i \in DOMAIN awarded})
                 /\ xp' = [xp EXCEPT ![u] = @ + BadgeXp(awarded)]
                 /\ points' = [points EXCEPT ![u] = @ + Len(awarded) * BadgePointsBonus]
                 /\ UNCHANGED <<accountVars, now, contentVars, moderationVars, requests, progressVars,
                                badges, activityVars>>
            ELSE UNCHANGED state

\* the catalog seed.py makes
SeedScriptBadges ==
    {"First Steps", "Week Warrior", "Month Master", "Path Pioneer",
     "Knowledge Sharer", "Community Star"}

\* a perfect attempt at the one-question quiz, as submit_quiz records it
PerfectAttempt ==
    [user_id |-> 1, quiz_id |-> 1, score |-> 100, correct_answers |-> 1,
     total_questions |-> 1, passed |-> TRUE,
     xp_earned |-> DefaultQuizXp + PerfectScoreBonus, completed_at |-> 0]

BadgeTickSteps == {HoursPerDay}
PerfectAttemptCounts == {4, 5}
CommentCounts == {9, 10}

\* accounts with some history: a streak about to reach a milestone, perfect
\* quiz attempts and comments around the thresholds, either seeded catalog
InitBadges ==
    /\ users = UserIds \ {NumUsers}
    /\ role \in [UserIds -> {"learner", "contributor"}]
    /\ streak_days \in [UserIds -> {0, 6, 29}]
    /\ \A u \in users : streak_days[u] # 0
    /\ \A u \in UserIds \ users : role[u] = "learner" /\ streak_days[u] = 0
    /\ last_active = [u \in UserIds |-> 0]
    /\ now = 0
    /\ \E n \in CommentCounts :
          comments = [i \in 1..n |-> CommentRow(1, 1, NULL, NULL, "text")]
    /\ \E n \in PerfectAttemptCounts :
          /\ quiz_attempts = [a \in {PerfectAttempt} |-> n]
          /\ xp = [u \in UserIds |->
                     IF u = 1 THEN n * (DefaultQuizXp + PerfectScoreBonus) ELSE 0]
          /\ points = [u \in UserIds |->
                         IF u = 1 THEN n * DefaultQuestionPoints ELSE 0]
    /\ quiz_questions = << [id |-> 1, correct_answer |-> 1,
                            points |-> DefaultQuestionPoints] >>
    /\ quiz_passing_score = DefaultPassingScore
    /\ quiz_xp_reward = DefaultQuizXp
    /\ badges \in {SeededBadges, SeedScriptBadges}
    /\ user_badges = EmptyBag
    /\ InitNoProgress
    /\ InitNoModeration
    /\ path_creator = [p \in PathIds |-> 1]
    /\ module_path = [m \in ModuleIds |-> 1]
    /\ module_order = [m \in ModuleIds |-> 0]
    /\ InitDefaultRewards
    /\ resource_module = [r \in ResourceIds |-> 1]
    /\ last = Response("init", 0, 0, 0, "", <<>>)

NextBadges ==
    \/ \E d \in BadgeTickSteps : Tick(d)
    \/ \E u \in UserIds : check_and_award_badges(u)
    \/ \E u \in UserIds : streak_update(u)
    \/ \E u \in users : enroll_in_path(u, 1)
    \/ \E u \in users, t \in TimeSpentInputs : complete_resource(u, 1, t)
    \/ \E u \in users : complete_module(u, 1)

SpecBadges == InitBadges /\ [][NextBadges]_vars

\* --------------------------------------------------- badges: the properties
\* the catalog badges whose rule u satisfies
RuleSatisfied(u) ==
    {b \in badges :
        \/ b = "First Steps" /\ TotalCompletedResources(u) >= 1
        \/ b = "Path Finder" /\ CompletedPaths(u) >= 1
        \/ b = "Week Warrior" /\ streak_days[u] >= 7
        \/ b = "Streak Legend" /\ streak_days[u] >= 30
        \/ b = "Quiz Master" /\ PerfectQuizzes(u) >= 5
        \/ b = "Social Butterfly" /\ CommentCount(u) >= 10
        \/ b = "Code Ninja" /\ TotalCompletedResources(u) >= 50
        \/ b = "Mentor" /\ role[u] \in {"contributor", "admin"} /\ CreatedPaths(u) >= 1}

\* C6: check_and_award_badges adds one UserBadge row for exactly the badges
\* whose rule the user satisfies and which the user does not hold, and adds
\* 50 XP and 25 points for each of them; called again right after a call,
\* with the counters as they were, it adds no row and changes neither xp nor
\* points.
C6_BadgeCheck ==
    [][\A u \in users :
        Called("check_and_award_badges", u, NULL) =>
          LET granted == {b \in RuleSatisfied(u) :
                            ~BagIn([user_id |-> u, badge_id |-> b], user_badges)}
          IN
          /\ user_badges' = user_badges (+)
                SetToBag({[user_id |-> u, badge_id |-> b] : b \in granted})
          /\ xp' = [xp EXCEPT ![u] = @ + 50 * Cardinality(granted)]
          /\ points' = [points EXCEPT ![u] = @ + 25 * Cardinality(granted)]
          /\ {last'.data.new_badges[i] : i \in DOMAIN last'.data.new_badges} = granted
          /\ (last.op = "check_and_award_badges" /\ last.user = u)
             => /\ last'.data.new_badges = <<>>
                /\ UNCHANGED <<user_badges, xp, points>>
      ]_vars

\* a check that followed a check which had granted three badges or more
\* granted none
C6_Witness ==
    /\ last.op = "check_and_award_badges" /\ last.status = 200
    /\ last.data.new_badges = <<>>
    /\ last.data.total_badges >= 3
    /\ ~BagIn([user_id |-> last.user, badge_id |-> "7 Day Streak"], user_badges)
    /\ points[last.user] >= 75

\* C8: no (user, badge) has two UserBadge rows, whatever sequence of
\* check_and_award_badges and streak_update calls has run.
C8_UserBadgeUnique ==
    \A row \in BagToSet(user_badges) : CopiesIn(row, user_badges) = 1

\* the user holds a badge of each route, and a streak_update that reached
\* no new milestone has run since
C8_Witness ==
    /\ last.op = "streak_update" /\ last.status = 200
    /\ last.data.bonuses = <<>>
    /\ last.data.streak_days >= 7
    /\ BagIn([user_id |-> last.user, badge_id |-> "7 Day Streak"], user_badges)
    /\ BagIn([user_id |-> last.user, badge_id |-> "Week Warrior"], user_badges)

\* ------------------------------------------------------ leaderboard service
NumRanked == 5
MaxLimit == 1000
RankedIds == 1..NumRanked
XpLevels == {0, 10, 20, 30, 40}
Periods == {"daily", "weekly", "monthly", "all_time"}
PeriodArgs == Periods \cup {"yearly"}
LimitArgs == {0, 2, MaxLimit + 1}

\* timedelta(days=1), timedelta(weeks=1), timedelta(days=30), in hours
PeriodHours(period) ==
    CASE period = "daily" -> 24
      [] period = "weekly" -> 7 * 24
      [] period = "monthly" -> 30 * 24

\* query.filter(User.last_active >= start_date): a NULL last_active never
\* compares true
Filtered(period) ==
    IF period = "all_time" THEN users
    ELSE {u \in users : /\ last_active[u] # NULL
                        /\ last_active[u] >= now - PeriodHours(period)}

\* if limit < 1: limit = 1 elif limit > 1000: limit = 1000
ClampLimit(limit) ==
    IF limit < 1 THEN 1 ELSE IF limit > MaxLimit THEN MaxLimit ELSE limit

\* .order_by(key): every order of the rows the database may answer with,
\* rows of equal key in any order
RECURSIVE OrderedBy(_, _)
OrderedBy(S, key) ==
    IF S = {} THEN {<<>>}
    ELSE UNION {{<<u>> \o rest : rest \in OrderedBy(S \ {u}, key)} :
                u \in {v \in S : \A w \in S : key[v] <= key[w]}}

XpDesc == [u \in users |-> 0 - xp[u]]
XpAsc == [u \in users |-> xp[u]]

Limit_All(rows, n) == rows

\* .limit(n).all()
Limit(rows, n) == SubSeq(rows, 1, IF n < Len(rows) THEN n ELSE Len(rows))

Reversed(rows) == [i \in 1..Len(rows) |-> rows[Len(rows) + 1 - i]]

\* get_leaderboard(period, limit)
get_leaderboard(period, limit) ==
    /\ UNCHANGED state
    /\ IF period \notin Periods
       THEN last' = Response("get_leaderboard", NULL,
                             [period |-> period, limit |-> limit],
                             400, "INVALID_PERIOD", <<>>)
       ELSE \E top_users \in {Limit(ordered, ClampLimit(limit)) :
                                ordered \in OrderedBy(Filtered(period), XpDesc)} :
            last' = Response("get_leaderboard", NULL,
                        [period |-> period, limit |-> limit], 200, "",
                        [rank \in 1..Len(top_users) |->
                            [rank |-> rank, user_id |-> top_users[rank],
                             xp |-> xp[top_users[rank]],
                             points |-> points[top_users[rank]]]])

RankAmong_AtLeast(rows, v) == Cardinality({w \in rows : xp[w] >= xp[v]}) + 1

\* query.filter(User.xp > user.xp).count() + 1
RankAmong(rows, v) == Cardinality({w \in rows : xp[w] > xp[v]}) + 1

Neighbour(rows, v, position) ==
    [rank |-> RankAmong(rows, v), user_id |-> v, xp |-> xp[v],
     points |-> points[v], position |-> position]

\* get_user_rank(user_id, period)
get_user_rank(u, period) ==
    /\ UNCHANGED state
    /\ IF u \notin users
       THEN last' = Response("get_user_rank", u, [period |-> period],
                             404, "USER_NOT_FOUND", <<>>)
       ELSE IF period \notin Periods
       THEN last' = Response("get_user_rank", u, [period |-> period],
                             400, "INVALID_PERIOD", <<>>)
       ELSE LET rows == Filtered(period) IN
            \E users_above \in
                  {Reversed(Limit(above, 2)) :
                     above \in OrderedBy({w \in rows : xp[w] > xp[u]}, XpAsc)},
               users_below \in
                  {Limit(below, 2) :
                     below \in OrderedBy({w \in rows : xp[w] < xp[u]}, XpDesc)} :
            last' = Response("get_user_rank", u, [period |-> period], 200, "",
                 [user_rank |-> RankAmong(rows, u),
                  user |-> [user_id |-> u, xp |-> xp[u], points |-> points[u]],
                  surrounding_users |->
                      [i \in 1..Len(users_above) |->
                          Neighbour(rows, users_above[i], "above")]
                      \o [i \in 1..Len(users_below) |->
                          Neighbour(rows, users_below[i], "below")],
                  period |-> period,
                  total_users |-> Cardinality(rows)])

\* the three kinds of account, by last_active: never active, active an hour
\* too long ago for the period that ends now, active just in time for it
ActivityKinds == <<NULL, 0, 1>>

\* a users table of NumRanked accounts: any XP, listed here from the lowest;
\* the three kinds of activity alternate along it, from any of them
InitLeaderboard ==
    /\ users = RankedIds
    /\ role = [u \in RankedIds |-> "learner"]
    /\ streak_days = [u \in RankedIds |-> 0]
    /\ xp \in {f \in [RankedIds -> XpLevels] :
                 \A u \in RankedIds : u > 1 => f[u - 1] <= f[u]}
    /\ points = [u \in RankedIds |-> xp[u] \div 2]
    /\ now \in {PeriodHours(period) + 1 : period \in Periods \ {"all_time"}}
    /\ \E k \in 0..2 :
          last_active = [u \in RankedIds |-> ActivityKinds[((u + k) % 3) + 1]]
    /\ comments = <<>>
    /\ badges = SeededBadges
    /\ user_badges = EmptyBag
    /\ quiz_attempts = EmptyBag
    /\ InitNoProgress
    /\ InitNoModeration
    /\ InitEmptyQuiz
    /\ path_creator = [p \in PathIds |-> 1]
    /\ module_path = [m \in ModuleIds |-> 1]
    /\ module_order = [m \in ModuleIds |-> 0]
    /\ InitDefaultRewards
    /\ resource_module = [r \in ResourceIds |-> 1]
    /\ last = Response("init", 0, 0, 0, "", <<>>)

NextLeaderboard ==
    \/ \E period \in PeriodArgs, limit \in LimitArgs : get_leaderboard(period, limit)
    \/ \E u \in 1..(NumRanked + 1), period \in PeriodArgs : get_user_rank(u, period)

SpecLeaderboard == InitLeaderboard /\ [][NextLeaderboard]_vars

\* ----------------------------------------------- leaderboard: the properties
\* the users a period counts: all of them for all_time, else those last
\* active no longer ago than 1, 7 or 30 days
PeriodSet(period) ==
    {u \in users :
        \/ period = "all_time"
        \/ /\ last_active[u] # NULL
           /\ now - last_active[u] <=
                24 * (CASE period = "daily" -> 1 [] period = "weekly" -> 7
                        [] period = "monthly" -> 30)}

Smaller(a, b) == IF a < b THEN a ELSE b

\* C11: get_leaderboard(period, limit) answers with min(limit, size of the
\* period's set) users of that set, limit taken within the service's 1..1000;
\* no entry has less xp than a later one, no user of the set left out has
\* more xp than a returned one, and each entry's rank is its position.
C11_Leaderboard ==
    [][\A period \in Periods, limit \in LimitArgs :
        (/\ last'.op = "get_leaderboard"
         /\ last'.arg = [period |-> period, limit |-> limit]
         /\ now' = now) =>
          LET board == last'.data
              rows == PeriodSet(period)
              returned == {board[i].user_id : i \in DOMAIN board}
              wanted == IF limit < 1 THEN 1
                        ELSE IF limit > 1000 THEN 1000 ELSE limit
          IN
          /\ last'.status = 200
          /\ Len(board) = Smaller(wanted, Cardinality(rows))
          /\ returned \subseteq rows
          /\ Cardinality(returned) = Len(board)
          /\ \A i \in DOMAIN board :
                /\ board[i].rank = i
                /\ board[i].xp = xp[board[i].user_id]
                /\ \A j \in DOMAIN board : i < j => board[i].xp >= board[j].xp
                /\ \A u \in rows \ returned : xp[u] <= board[i].xp
      ]_vars

\* a weekly board of two was cut from a larger set: its two entries tie and
\* hold ranks 1 and 2, an active user with less xp was left out, and a user
\* with more xp who was never active is not on it
C11_Witness ==
    /\ last.op = "get_leaderboard" /\ last.status = 200
    /\ last.arg = [period |-> "weekly", limit |-> 2]
    /\ Len(last.data) = 2
    /\ last.data[1].xp = last.data[2].xp
    /\ last.data[2].rank = 2
    /\ \E u \in PeriodSet("weekly") : xp[u] < last.data[2].xp
    /\ \E v \in users : last_active[v] = NULL /\ xp[v] > last.data[1].xp

\* C12: get_user_rank(u, period) answers not-found exactly when u is not in
\* the users table; otherwise user_rank is one more than the number of users
\* of the period's set with more xp, and surrounding_users lists first the
\* (up to two) users of the set with the least xp above u's, from higher to
\* lower xp, then the (up to two) with the most xp below u's, each with the
\* rank the same count gives.
C12_UserRank ==
    [][\A u \in 1..(NumRanked + 1), period \in Periods :
        (/\ last'.op = "get_user_rank" /\ last'.user = u
         /\ last'.arg = [period |-> period]
         /\ now' = now) =>
          IF u \notin users THEN last'.status = 404
          ELSE
          LET r == last'.data
              rows == PeriodSet(period)
              higher == {w \in rows : xp[w] > xp[u]}
              lower == {w \in rows : xp[w] < xp[u]}
              near == r.surrounding_users
              aboves == {i \in DOMAIN near : near[i].position = "above"}
              belows == {i \in DOMAIN near : near[i].position = "below"}
              listed(I) == {near[i].user_id : i \in I}
          IN
          /\ last'.status = 200
          /\ r.user_rank = Cardinality(higher) + 1
          /\ aboves \cup belows = DOMAIN near
          /\ \A i \in aboves, j \in belows : i < j
          /\ Cardinality(aboves) = Smaller(2, Cardinality(higher))
          /\ Cardinality(belows) = Smaller(2, Cardinality(lower))
          /\ Cardinality(listed(DOMAIN near)) = Len(near)
          /\ listed(aboves) \subseteq higher
          /\ listed(belows) \subseteq lower
          /\ \A w \in higher \ listed(aboves), i \in aboves : xp[w] >= near[i].xp
          /\ \A w \in lower \ listed(belows), i \in belows : xp[w] <= near[i].xp
          /\ \A i \in DOMAIN near :
                /\ near[i].xp = xp[near[i].user_id]
                /\ near[i].rank =
                     Cardinality({w \in rows : xp[w] > near[i].xp}) + 1
                /\ \A j \in DOMAIN near : i < j => near[i].xp >= near[j].xp
      ]_vars

\* a user ranked fourth of five was answered with the second and third
\* above and the fifth below; the first is too far above to be listed
C12_Witness ==
    /\ last.op = "get_user_rank" /\ last.status = 200
    /\ last.data.user_rank = 4
    /\ last.data.total_users = 5
    /\ Len(last.data.surrounding_users) = 3
    /\ last.data.surrounding_users[1].rank = 2
    /\ last.data.surrounding_users[2].position = "above"
    /\ last.data.surrounding_users[3].rank = 5


\* ------------------------------------------------------ concurrent requests
\* Each request runs in its own session: it loads rows, changes them in
\* memory, and its commit writes the values it computed.  A request in flight
\* is a row of `requests` holding what its session has read.
MaxRequests == 2
MaxXpPerRequest == 10000
XpInputs == {0, 5, 20, MaxXpPerRequest + 1}

tables == <<userVars, now, contentVars, progressVars, badgeVars, activityVars,
            moderationVars>>

Request(op, u, arg, session) ==
    [op |-> op, user |-> u, arg |-> arg, session |-> session, pc |-> "loaded"]

Pending(i, op) ==
    i \in DOMAIN requests /\ requests[i].op = op /\ requests[i].pc = "loaded"

Finish(i) == [requests EXCEPT ![i].pc = "done"]

\* the UPDATE add_xp's commit emits: the value its session computed
AddXpWrite_Atomic(req) == xp[req.user] + req.arg

AddXpWrite(req) == req.session.xp + req.arg

\* POST /gamification/xp/add up to `user.xp += xp_amount`: the session has
\* loaded the user row
add_xp_load(u, xp_amount) ==
    /\ Len(requests) < MaxRequests
    /\ IF u \notin users
       THEN /\ last' = Response("add_xp", u, xp_amount, 404, "USER_NOT_FOUND", <<>>)
            /\ UNCHANGED state
       ELSE IF xp_amount <= 0
       THEN /\ last' = Response("add_xp", u, xp_amount, 400, "INVALID_XP_VALUE", <<>>)
            /\ UNCHANGED state
       ELSE IF xp_amount > MaxXpPerRequest
       THEN /\ last' = Response("add_xp", u, xp_amount, 400, "XP_LIMIT_EXCEEDED", <<>>)
            /\ UNCHANGED state
       ELSE /\ requests' = Append(requests,
                              Request("add_xp", u, xp_amount, [xp |-> xp[u]]))
            /\ UNCHANGED <<tables, last>>

\* db.session.commit() of add_xp and its response
add_xp_commit(i) ==
    /\ Pending(i, "add_xp")
    /\ LET req == requests[i] IN
       /\ xp' = [xp EXCEPT ![req.user] = AddXpWrite(req)]
       /\ last' = Response("add_xp", req.user, req.arg, 200, "",
                           [total_xp |-> AddXpWrite(req), xp_added |-> req.arg])
    /\ requests' = Finish(i)
    /\ UNCHANGED <<accountVars, points, now, contentVars, progressVars, badgeVars,
                   activityVars, moderationVars>>

\* POST /progress/complete-resource/<resource_id> up to the existence check:
\* the session has loaded the user row and found no completion
complete_resource_load(u, r, time_spent) ==
    /\ Len(requests) < MaxRequests
    /\ IF r \notin ResourceIds
       THEN /\ last' = Response("complete_resource", u, r, 404, "Resource not found", <<>>)
            /\ UNCHANGED state
       ELSE IF AlreadyCompleted(u, r)
       THEN \E existing \in CompletionRows(u, r) :
            /\ last' = Response("complete_resource", u, r, 200,
                                "Resource already completed", existing)
            /\ UNCHANGED state
       ELSE IF u \notin users
       THEN /\ last' = Response("complete_resource", u, r, 500,
                                "Internal Server Error", <<>>)
            /\ UNCHANGED state
       ELSE /\ requests' = Append(requests,
                              Request("complete_resource", u, r,
                                      [xp |-> xp[u], time_spent |-> time_spent]))
            /\ UNCHANGED <<tables, last>>

\* the rest of complete_resource: the enrollment row is read and changed, the
\* completion inserted, and the commit writes the xp the session computed
complete_resource_commit(i) ==
    /\ Pending(i, "complete_resource")
    /\ LET req == requests[i]
           u == req.user
           r == req.arg
           completion == [user_id |-> u, resource_id |-> r,
                          time_spent |-> req.session.time_spent,
                          xp_earned |-> ResourceXp]
           p == module_path[resource_module[r]]
       IN
       /\ xp' = [xp EXCEPT ![u] = req.session.xp + ResourceXp]
       /\ IF ProgressRows(u, p) # {}
          THEN \E progress \in ProgressRows(u, p) :
               user_progress' = ReplaceRow(user_progress, progress,
                                   ResourceProgress(progress, r, req.session.time_spent))
          ELSE UNCHANGED user_progress
       /\ resource_completions' = resource_completions (+) SetToBag({completion})
       /\ last' = Response("complete_resource", u, r, 201, "Resource completed!",
                           completion)
    /\ requests' = Finish(i)
    /\ UNCHANGED <<accountVars, points, now, contentVars, enrolled_count, badgeVars,
                   activityVars, moderationVars>>

\* one learner enrolled in the one path that holds every module
InitXpRace ==
    /\ InitUsers
    /\ streak_days = [u \in UserIds |-> 0]
    /\ last_active = [u \in UserIds |-> 0]
    /\ now = 0
    /\ InitNoActivity
    /\ InitNoModeration
    /\ InitEmptyQuiz
    /\ path_creator = [p \in PathIds |-> 1]
    /\ module_path = [m \in ModuleIds |-> 1]
    /\ module_order = [m \in ModuleIds |-> 0]
    /\ InitDefaultRewards
    /\ resource_module = [r \in ResourceIds |-> 1]
    /\ enrolled_count = [p \in PathIds |-> IF p = 1 THEN 1 ELSE 0]
    /\ user_progress \in {EmptyBag, SetToBag({NewProgress(1, 1, 1)})}
    /\ resource_completions = EmptyBag
    /\ last = Response("init", 0, 0, 0, "", <<>>)

NextXpRace ==
    \/ \E u \in UserIds, xp_amount \in XpInputs : add_xp_load(u, xp_amount)
    \/ \E i \in 1..MaxRequests : add_xp_commit(i)
    \/ \E u \in UserIds, r \in ResourceArgs, t \in TimeSpentInputs :
          complete_resource_load(u, r, t)
    \/ \E i \in 1..MaxRequests : complete_resource_commit(i)

SpecXpRace == InitXpRace /\ [][NextXpRace]_vars

\* ------------------------------------------- concurrent XP: the properties
\* the XP a request in flight awards
Award(req) == IF req.op = "add_xp" THEN req.arg ELSE ResourceXp

\* the requests of user u
RequestsOf(u) == {i \in DOMAIN requests : requests[i].user = u}

RECURSIVE SumAwards(_)
SumAwards(S) ==
    IF S = {} THEN 0
    ELSE LET i == CHOOSE j \in S : TRUE
         IN Award(requests[i]) + SumAwards(S \ {i})

\* every request the bound allows was made and has committed
AllCommitted ==
    /\ Len(requests) = MaxRequests
    /\ \A i \in DOMAIN requests : requests[i].pc = "done"

\* two requests of user u read the same xp
ReadSameXp(u) ==
    \E i, j \in RequestsOf(u) :
        i # j /\ requests[i].session.xp = requests[j].session.xp

\* C13: XP-awarding requests for one user interleave as read xp / write
\* xp + amount with no lock: every commit writes the xp its request read plus
\* its award whatever the row holds by then, so once all have committed the
\* user's xp is never more than the initial xp (0) plus the sum of the awards,
\* and it is less (an update is lost) exactly when two of the requests read
\* the same xp, one before the other committed
C13_LostUpdate ==
    [][ /\ \A i \in DOMAIN requests :
             (requests[i].pc = "loaded" /\ requests'[i].pc = "done") =>
                xp'[requests[i].user] = requests[i].session.xp + Award(requests[i])
        /\ AllCommitted' =>
             \A u \in users :
                /\ xp'[u] <= SumAwards(RequestsOf(u))'
                /\ xp'[u] < SumAwards(RequestsOf(u))' <=> ReadSameXp(u)' ]_vars

\* an add_xp and a complete_resource for the same user both committed and
\* the user's xp is less than the two awards together
C13_Witness ==
    /\ AllCommitted
    /\ \E i, j \in DOMAIN requests :
          /\ requests[i].op = "add_xp"
          /\ requests[j].op = "complete_resource"
          /\ requests[i].user = requests[j].user
          /\ xp[requests[i].user] < SumAwards(RequestsOf(requests[i].user))


\* ---------------------------------------- concurrent requests: badge awards
RaceStreaks == {0, 7, 30}
RaceStreakInputs == {6, 7, 30}

Checked(i, op) ==
    i \in DOMAIN requests /\ requests[i].op = op /\ requests[i].pc = "checked"

\* the badge ids the user holds: UserBadge.query.filter_by(user_id).all()
Held(u) == {row.badge_id : row \in {x \in BagToSet(user_badges) : x.user_id = u}}

\* POST /gamification/badges/check up to the 404: the session has loaded the
\* user row
check_and_award_badges_load(u) ==
    /\ Len(requests) < MaxRequests
    /\ IF u \notin users
       THEN /\ last' = Response("check_and_award_badges", u, NULL, 404,
                                "User not found", <<>>)
            /\ UNCHANGED state
       ELSE /\ requests' = Append(requests,
                              Request("check_and_award_badges", u, NULL,
                                      [xp |-> xp[u], points |-> points[u]]))
            /\ UNCHANGED <<tables, last>>

\* `existing` is read and the eight rules are tried against the tables of
\* this moment (no request here writes the streak or the role of the loaded
\* row); with nothing awarded the call answers without a commit
check_and_award_badges_check(i) ==
    /\ Pending(i, "check_and_award_badges")
    /\ LET req == requests[i]
           u == req.user
           done == TryAwards(1, BadgeRules(u),
                             [existing |-> Held(u), awarded |-> <<>>])
       IN
       IF done.awarded = <<>>
       THEN /\ last' = Response("check_and_award_badges", u, NULL, 200, "",
                          [new_badges |-> <<>>,
                           total_badges |-> Cardinality(done.existing),
                           xp_bonus |-> 0])
            /\ requests' = Finish(i)
            /\ UNCHANGED tables
       ELSE /\ requests' = [requests EXCEPT
                              ![i].pc = "checked",
                              ![i].session =
                                  [xp |-> req.session.xp,
                                   points |-> req.session.points,
                                   awarded |-> done.awarded,
                                   existing |-> done.existing]]
            /\ UNCHANGED <<tables, last>>

\* `if awarded:` the bonus is added to the loaded row and the session commits
check_and_award_badges_commit(i) ==
    /\ Checked(i, "check_and_award_badges")
    /\ LET req == requests[i]
           u == req.user
           awarded == req.session.awarded
       IN
       /\ user_badges' = user_badges (+)
               SetToBag({UserBadgeRow(u, awarded[k]) : k \in DOMAIN awarded})
       /\ xp' = [xp EXCEPT ![u] = req.session.xp + BadgeXp(awarded)]
       /\ points' = [points EXCEPT
                       ![u] = req.session.points + Len(awarded) * BadgePointsBonus]
       /\ last' = Response("check_and_award_badges", u, NULL, 200, "",
                     [new_badges |-> awarded,
                      total_badges |-> Cardinality(req.session.existing),
                      xp_bonus |-> Len(awarded) * BadgeXpBonus])
    /\ requests' = Finish(i)
    /\ UNCHANGED <<accountVars, now, contentVars, progressVars, badges,
                   activityVars, moderationVars>>

\* the milestones of award_streak_bonus(u, s) whose existence check finds no
\* UserBadge row
MilestonesToAward(u, s) ==
    SelectSeq(Milestones,
              LAMBDA ms : s >= ms.days /\ ~HasBadge(user_badges, u, ms.badge_name))

RECURSIVE MilestoneXp(_)
MilestoneXp(awards) ==
    IF awards = <<>> THEN 0 ELSE Head(awards).xp + MilestoneXp(Tail(awards))

\* award_streak_bonus(user_id, streak_days) through its existence checks,
\* taken together; with no badge to award it returns without a commit
award_streak_bonus_check(u, s) ==
    /\ Len(requests) < MaxRequests
    /\ IF MilestonesToAward(u, s) = <<>>
       THEN /\ last' = Response("award_streak_bonus", u, s, 200, "", <<>>)
            /\ UNCHANGED state
       ELSE /\ requests' = Append(requests,
                  [Request("award_streak_bonus", u, s,
                           [awards |-> MilestonesToAward(u, s), xp |-> NULL])
                   EXCEPT !.pc = "checked"])
            /\ UNCHANGED <<tables, last>>

\* user = User.query.get(user_id), after the existence check: the session
\* reads the user row as committed by then; with no such user no bonus is
\* recorded and nothing is committed
award_streak_bonus_load(i) ==
    /\ Checked(i, "award_streak_bonus")
    /\ LET req == requests[i] IN
       IF req.user \notin users
       THEN /\ last' = Response("award_streak_bonus", req.user, req.arg, 200, "", <<>>)
            /\ requests' = Finish(i)
            /\ UNCHANGED tables
       ELSE /\ requests' = [requests EXCEPT ![i].pc = "loaded",
                                            ![i].session.xp = xp[req.user]]
            /\ UNCHANGED <<tables, last>>

\* `if bonuses: db.session.commit()`
award_streak_bonus_commit(i) ==
    /\ Pending(i, "award_streak_bonus")
    /\ LET req == requests[i]
           u == req.user
           awards == req.session.awards
       IN
       /\ badges' = badges \cup {awards[k].badge_name : k \in DOMAIN awards}
       /\ user_badges' = user_badges (+)
               SetToBag({UserBadgeRow(u, awards[k].badge_name) : k \in DOMAIN awards})
       /\ xp' = [xp EXCEPT ![u] = req.session.xp + MilestoneXp(awards)]
       /\ last' = Response("award_streak_bonus", u, req.arg, 200, "",
                           [k \in DOMAIN awards |-> awards[k].days])
    /\ requests' = Finish(i)
    /\ UNCHANGED <<accountVars, points, now, contentVars, progressVars,
                   activityVars, moderationVars>>

\* one user, with a streak, and an account deleted while its token is valid
InitBadgeRace ==
    /\ InitUsers
    /\ \E s \in RaceStreaks : streak_days = [u \in UserIds |-> IF u = 1 THEN s ELSE 0]
    /\ last_active = [u \in UserIds |-> 0]
    /\ now = 0
    /\ InitNoActivity
    /\ InitNoProgress
    /\ InitNoModeration
    /\ InitEmptyQuiz
    /\ path_creator = [p \in PathIds |-> 1]
    /\ module_path = [m \in ModuleIds |-> 1]
    /\ module_order = [m \in ModuleIds |-> 0]
    /\ InitDefaultRewards
    /\ resource_module = [r \in ResourceIds |-> 1]
    /\ last = Response("init", 0, 0, 0, "", <<>>)

NextBadgeRace ==
    \/ \E u \in UserIds : check_and_award_badges_load(u)
    \/ \E i \in 1..MaxRequests : check_and_award_badges_check(i)
    \/ \E i \in 1..MaxRequests : check_and_award_badges_commit(i)
    \/ \E u \in UserIds, s \in RaceStreakInputs : award_streak_bonus_check(u, s)
    \/ \E i \in 1..MaxRequests : award_streak_bonus_load(i)
    \/ \E i \in 1..MaxRequests : award_streak_bonus_commit(i)

SpecBadgeRace == InitBadgeRace /\ [][NextBadgeRace]_vars

\* ---------------------------------------- concurrent badges: the properties
\* the badges request i inserts at its commit
Inserts(req) ==
    IF req.op = "award_streak_bonus"
    THEN {req.session.awards[k].badge_name : k \in DOMAIN req.session.awards}
    ELSE {req.session.awarded[k] : k \in DOMAIN req.session.awarded}

\* the XP request i adds at its commit
Bonus(req) ==
    IF req.op = "award_streak_bonus" THEN MilestoneXp(req.session.awards)
    ELSE Len(req.session.awarded) * BadgeXpBonus

\* request i is past its existence check and has something to commit
HasChecked(i) ==
    /\ i \in DOMAIN requests
    /\ \/ requests[i].pc = "checked"
       \/ requests[i].op = "award_streak_bonus" /\ requests[i].pc = "loaded"

\* request i has only its commit left
ReadyToCommit(i) ==
    \/ Pending(i, "award_streak_bonus")
    \/ Checked(i, "check_and_award_badges")

NumAccounts == 3
PathApprovalXp == 100
SearchLimit == 6
MinQueryLen == 2

AccountIds == 1..NumAccounts
\* the caller or target a request names: the admin, a learner, or an id
\* that was never used
AccountArgs == {1, NumAccounts, NumAccounts + 1}
\* a key the request body or query string does not have
Absent == "absent"
ValidRoles_Open == {"admin", "contributor", "learner", "owner"}
ValidRoles == {"admin", "contributor", "learner"}
RoleArgs == {"contributor", "owner", Absent}
ValidActions_Open == {"warn", "remove", "ban", "mute"}
ValidActions == {"warn", "remove", "ban"}
ActionArgs == ValidActions \cup {"mute", Absent}
ReportArgs == 1..2

HasAdminRole_Always(c) == TRUE

\* admin_required: user.role == 'admin'
HasAdminRole(c) == role[c] = "admin"

\* admin_required lets the call through
Admitted(c) == c \in users /\ HasAdminRole(c)

\* admin_required: the answer to a caller it stops
admin_required(op, c, arg) ==
    /\ last' = IF c \notin users
               THEN Response(op, c, arg, 404, "USER_NOT_FOUND", <<>>)
               ELSE Response(op, c, arg, 403, "ADMIN_REQUIRED", <<>>)
    /\ UNCHANGED state

\* a row of table notifications
Notification(u, type, related_type, related_id) ==
    [user_id |-> u, type |-> type, related_type |-> related_type,
     related_id |-> related_id, is_read |-> FALSE]

IsApproved_Never(p) == FALSE

\* approve_path: `if path.is_approved`
IsApproved(p) == is_approved[p]

\* POST /admin/approve/<path_id>
approve_path(c, p) ==
    IF ~Admitted(c) THEN admin_required("approve_path", c, p)
    ELSE IF p \notin PathIds
          THEN /\ last' = Response("approve_path", c, p, 404, "PATH_NOT_FOUND", <<>>)
               /\ UNCHANGED state
          ELSE IF IsApproved(p)
          THEN /\ last' = Response("approve_path", c, p, 400, "ALREADY_APPROVED", <<>>)
               /\ UNCHANGED state
          ELSE IF path_creator[p] \notin users
          THEN \* path.creator is None: the AttributeError is rolled back
               /\ last' = Response("approve_path", c, p, 500, "DATABASE_ERROR", <<>>)
               /\ UNCHANGED state
          ELSE /\ is_approved' = [is_approved EXCEPT ![p] = TRUE]
               /\ xp' = [xp EXCEPT ![path_creator[p]] = @ + PathApprovalXp]
               /\ notifications' = notifications (+) SetToBag(
                      {Notification(path_creator[p], "path_approved", "learning_path", p)})
               /\ last' = Response("approve_path", c, p, 200, "",
                                   [xp_awarded |-> PathApprovalXp])
               /\ UNCHANGED <<accountVars, points, now, contentVars, progressVars,
                              badgeVars, activityVars, user_status, is_published,
                              reports, requests>>

\* POST /admin/reject/<path_id>
reject_path(c, p) ==
    IF ~Admitted(c) THEN admin_required("reject_path", c, p)
    ELSE IF p \notin PathIds
          THEN /\ last' = Response("reject_path", c, p, 404, "PATH_NOT_FOUND", <<>>)
               /\ UNCHANGED state
          ELSE /\ is_published' = [is_published EXCEPT ![p] = FALSE]
               /\ is_approved' = [is_approved EXCEPT ![p] = FALSE]
               /\ notifications' = notifications (+) SetToBag(
                      {Notification(path_creator[p], "path_rejected", "learning_path", p)})
               /\ last' = Response("reject_path", c, p, 200, "", <<>>)
               /\ UNCHANGED <<userVars, now, contentVars, progressVars, badgeVars,
                              activityVars, user_status, reports, requests>>


\* PUT /admin/users/<user_id>/role
change_user_role(c, u, new_role) ==
    LET arg == [user_id |-> u, role |-> new_role] IN
    IF ~Admitted(c) THEN admin_required("change_user_role", c, arg)
    ELSE IF u \notin users
          THEN /\ last' = Response("change_user_role", c, arg, 404, "USER_NOT_FOUND", <<>>)
               /\ UNCHANGED state
          ELSE IF new_role = Absent
          THEN /\ last' = Response("change_user_role", c, arg, 400, "MISSING_ROLE", <<>>)
               /\ UNCHANGED state
          ELSE IF new_role \notin ValidRoles
          THEN /\ last' = Response("change_user_role", c, arg, 400, "INVALID_ROLE", <<>>)
               /\ UNCHANGED state
          ELSE /\ role' = [role EXCEPT ![u] = new_role]
               /\ last' = Response("change_user_role", c, arg, 200, "",
                                   [old_role |-> role[u], role |-> new_role])
               /\ UNCHANGED <<users, streak_days, last_active, xp, points, now,
                              contentVars, progressVars, badgeVars, activityVars,
                              moderationVars, requests>>

\* PUT /admin/users/<user_id>/suspend
suspend_user(c, u, should_suspend) ==
    LET arg == [user_id |-> u, suspend |-> should_suspend] IN
    IF ~Admitted(c) THEN admin_required("suspend_user", c, arg)
    ELSE IF u = c
          THEN /\ last' = Response("suspend_user", c, arg, 400, "SELF_SUSPEND", <<>>)
               /\ UNCHANGED state
          ELSE IF u \notin users
          THEN /\ last' = Response("suspend_user", c, arg, 404, "USER_NOT_FOUND", <<>>)
               /\ UNCHANGED state
          ELSE /\ user_status' = [user_status EXCEPT
                                    ![u] = IF should_suspend THEN "suspended" ELSE "active"]
               /\ last' = Response("suspend_user", c, arg, 200, "", user_status'[u])
               /\ UNCHANGED <<userVars, now, contentVars, progressVars, badgeVars,
                              activityVars, is_published, is_approved, reports,
                              notifications, requests>>

\* the rows whose NOT NULL user column db.session.delete(user) would empty
HasDependents(u) ==
    \/ \E i \in DOMAIN comments : comments[i].user_id = u
    \/ \E i \in DOMAIN reports : reports[i].reporter_id = u
    \/ \E n \in BagToSet(notifications) : n.user_id = u
    \/ \E a \in BagToSet(quiz_attempts) : a.user_id = u
    \/ \E r \in BagToSet(user_progress) : r.user_id = u
    \/ \E r \in BagToSet(resource_completions) : r.user_id = u
    \/ \E r \in BagToSet(user_badges) : r.user_id = u
    \/ \E q \in PathIds : path_creator[q] = u

\* DELETE /admin/users/<user_id>; a user with rows that point to it cannot
\* be deleted: the flush fails and handle_db_errors rolls back, answering 400
\* or 500 by the wording of the database's message
delete_user(c, u) ==
    IF ~Admitted(c) THEN admin_required("delete_user", c, u)
    ELSE IF u = c
          THEN /\ last' = Response("delete_user", c, u, 400, "SELF_DELETE", <<>>)
               /\ UNCHANGED state
          ELSE IF u \notin users
          THEN /\ last' = Response("delete_user", c, u, 404, "USER_NOT_FOUND", <<>>)
               /\ UNCHANGED state
          ELSE IF HasDependents(u)
          THEN /\ \/ last' = Response("delete_user", c, u, 400, "NULL_CONSTRAINT", <<>>)
                  \/ last' = Response("delete_user", c, u, 500, "DATABASE_ERROR", <<>>)
               /\ UNCHANGED state
          ELSE /\ users' = users \ {u}
               /\ last' = Response("delete_user", c, u, 200, "", <<>>)
               /\ UNCHANGED <<role, streak_days, last_active, xp, points, now,
                              contentVars, progressVars, badgeVars, activityVars,
                              moderationVars, requests>>

\* POST /admin/reports/<report_id>/dismiss
dismiss_report(c, r) ==
    IF ~Admitted(c) THEN admin_required("dismiss_report", c, r)
    ELSE IF r \notin DOMAIN reports
          THEN /\ last' = Response("dismiss_report", c, r, 404, "REPORT_NOT_FOUND", <<>>)
               /\ UNCHANGED state
          ELSE /\ reports' = [reports EXCEPT ![r].status = "dismissed",
                                             ![r].resolved_at = now,
                                             ![r].resolved_by = c]
               /\ last' = Response("dismiss_report", c, r, 200, "", <<>>)
               /\ UNCHANGED <<userVars, now, contentVars, progressVars, badgeVars,
                              activityVars, user_status, is_published, is_approved,
                              notifications, requests>>

\* POST /admin/reports/<report_id>/action
action_report(c, r, action) ==
    LET arg == [report_id |-> r, action |-> action] IN
    IF ~Admitted(c) THEN admin_required("action_report", c, arg)
    ELSE IF r \notin DOMAIN reports
          THEN /\ last' = Response("action_report", c, arg, 404, "REPORT_NOT_FOUND", <<>>)
               /\ UNCHANGED state
          ELSE IF action \notin ValidActions
          THEN /\ last' = Response("action_report", c, arg, 400, "INVALID_ACTION", <<>>)
               /\ UNCHANGED state
          ELSE LET report == reports[r]
                   found == /\ report.content_type = "comment"
                            /\ report.content_id \in DOMAIN comments
                   comment == comments[report.content_id]
               IN
               /\ comments' =
                    IF found /\ action \in {"remove", "ban"}
                    THEN [comments EXCEPT ![report.content_id].is_deleted = TRUE]
                    ELSE comments
               /\ notifications' =
                    IF found /\ action = "warn"
                    THEN notifications (+) SetToBag(
                           {Notification(comment.user_id, "content_warning",
                                         "comment", report.content_id)})
                    ELSE notifications
               /\ user_status' =
                    IF found /\ action = "ban" /\ comment.user_id \in users
                    THEN [user_status EXCEPT ![comment.user_id] = "banned"]
                    ELSE user_status
               /\ reports' = [reports EXCEPT ![r].status = "actioned",
                                             ![r].action_taken = action,
                                             ![r].resolved_at = now,
                                             ![r].resolved_by = c]
               /\ last' = Response("action_report", c, arg, 200, "", reports'[r])
               /\ UNCHANGED <<userVars, now, contentVars, progressVars, badgeVars,
                              quiz_attempts, is_published, is_approved, requests>>


\* GET /admin/stats (the growth and active-today figures are left out)
get_dashboard_stats(c) ==
    IF ~Admitted(c) THEN admin_required("get_dashboard_stats", c, NULL)
    ELSE
       /\ last' = Response("get_dashboard_stats", c, NULL, 200, "",
             [total_users |-> Cardinality(users),
              total_learning_paths |-> Cardinality({p \in PathIds : is_published[p]}),
              pending_approvals |->
                  Cardinality({p \in PathIds : is_published[p] /\ ~is_approved[p]}),
              pending_reports |->
                  Cardinality({r \in DOMAIN reports : reports[r].status = "pending"})])
       /\ UNCHANGED state

\* GET /admin/pending
get_pending_paths(c) ==
    IF ~Admitted(c) THEN admin_required("get_pending_paths", c, NULL)
    ELSE
       /\ last' = Response("get_pending_paths", c, NULL, 200, "",
                           {p \in PathIds : is_published[p] /\ ~is_approved[p]})
       /\ UNCHANGED state

\* GET /admin/users?role=...
get_users(c, role_filter) ==
    IF ~Admitted(c) THEN admin_required("get_users", c, role_filter)
    ELSE
       /\ last' = Response("get_users", c, role_filter, 200, "",
                           {u \in users : role_filter = Absent \/ role[u] = role_filter})
       /\ UNCHANGED state

\* GET /admin/reports?status=...
get_reports(c, status_filter) ==
    IF ~Admitted(c) THEN admin_required("get_reports", c, status_filter)
    ELSE
       /\ last' = Response("get_reports", c, status_filter, 200, "",
                           {r \in DOMAIN reports : reports[r].status = status_filter})
       /\ UNCHANGED state

\* ------------------------------------------------------ the public listing
\* LearningPath.to_dict(), the columns the flags and the creator
PathDict(p) ==
    [id |-> p, creator_id |-> path_creator[p],
     is_published |-> is_published[p], is_approved |-> is_approved[p]]

\* LearningPath.query.filter_by(is_published=True)
ListedPaths == {p \in PathIds : is_published[p]}

\* GET /learning-paths/
get_learning_paths ==
    /\ last' = Response("get_learning_paths", NULL, NULL, 200, "",
                        {PathDict(p) : p \in ListedPaths})
    /\ UNCHANGED state

\* titles as sequences of characters
PathTitle == [p \in PathIds |-> IF p = 1 THEN <<"P", "y">> ELSE <<"p", "y", "t">>]
ModuleTitle == [m \in ModuleIds |-> <<"m", "o", "d">>]
ResourceTitle == [r \in ResourceIds |-> <<"p", "y">>]
QueryArgs == {<<>>, <<"p">>, <<" ", "P", "y", " ">>, <<"m", "o">>, <<"z", "z">>}

\* str.lower()
Lower(text) ==
    [i \in DOMAIN text |-> IF text[i] = "P" THEN "p"
                           ELSE IF text[i] = "Y" THEN "y" ELSE text[i]]

\* str.strip()
RECURSIVE Strip(_)
Strip(text) ==
    IF text = <<>> THEN text
    ELSE IF Head(text) = " " THEN Strip(Tail(text))
    ELSE IF text[Len(text)] = " " THEN Strip(SubSeq(text, 1, Len(text) - 1))
    ELSE text

\* column.ilike('%q%')
ILike(text, q) ==
    \E i \in 1..(Len(text) - Len(q) + 1) :
        SubSeq(Lower(text), i, i + Len(q) - 1) = Lower(q)

\* .limit(6).all(): any six of the matching rows, all when there are fewer
Limited(rows) ==
    {some \in SUBSET rows :
        Cardinality(some) = IF Cardinality(rows) < SearchLimit
                            THEN Cardinality(rows) ELSE SearchLimit}

\* GET /learning-paths/search?q=...
search_learning_content(query) ==
    LET q == Lower(Strip(query)) IN
    /\ IF Len(q) < MinQueryLen
       THEN last' = Response("search_learning_content", NULL, query, 200, "",
                             [paths |-> {}, modules |-> {}, resources |-> {}])
       ELSE \E matched_paths \in Limited({p \in ListedPaths : ILike(PathTitle[p], q)}),
               matched_modules \in Limited({m \in ModuleIds :
                      module_path[m] \in ListedPaths /\ ILike(ModuleTitle[m], q)}),
               matched_resources \in Limited({r \in ResourceIds :
                      /\ module_path[resource_module[r]] \in ListedPaths
                      /\ ILike(ResourceTitle[r], q)}) :
            last' = Response("search_learning_content", NULL, query, 200, "",
                       [paths |-> matched_paths,
                        modules |-> {[id |-> m, learning_path_id |-> module_path[m]] :
                                        m \in matched_modules},
                        resources |-> {[id |-> r, module_id |-> resource_module[r],
                                        path_id |-> module_path[resource_module[r]]] :
                                        r \in matched_resources}])
    /\ UNCHANGED state


\* ------------------------------------------------- admin: the specification
MaxNotifications == 2

\* a row of table reports as a user files it
ReportRow(u, content_type, content_id) ==
    [reporter_id |-> u, content_type |-> content_type, content_id |-> content_id,
     status |-> "pending", action_taken |-> Absent, resolved_at |-> NULL,
     resolved_by |-> NULL]

\* an admin, a contributor who created the paths, wrote a comment and filed
\* a report on it, and learners; path 1 waits for approval or is a draft,
\* the last path is live
InitAccounts ==
    /\ users = AccountIds
    /\ role = [u \in AccountIds |-> IF u = 1 THEN "admin"
                                    ELSE IF u = 2 THEN "contributor" ELSE "learner"]
    /\ user_status = [u \in AccountIds |-> "active"]
    /\ xp = [u \in AccountIds |-> 0]
    /\ points = [u \in AccountIds |-> 0]
    /\ streak_days = [u \in AccountIds |-> 0]
    /\ last_active = [u \in AccountIds |-> 0]
    /\ now = 0
    /\ badges = SeededBadges
    /\ user_badges = EmptyBag
    /\ quiz_attempts = EmptyBag
    /\ InitNoProgress
    /\ InitEmptyQuiz
    /\ path_creator = [p \in PathIds |-> 2]
    /\ module_path = [m \in ModuleIds |-> IF m = 1 THEN 1 ELSE NumPaths]
    /\ module_order = [m \in ModuleIds |-> 0]
    /\ InitDefaultRewards
    /\ resource_module = [r \in ResourceIds |-> IF r = 1 THEN 1 ELSE NumModules]
    /\ is_published \in {[p \in PathIds |-> TRUE],
                         [p \in PathIds |-> p # 1]}
    /\ is_approved = [p \in PathIds |-> p = NumPaths]
    /\ notifications = EmptyBag
    /\ requests = <<>>
    /\ last = Response("init", 0, 0, 0, "", <<>>)

InitAdmin ==
    /\ InitAccounts
    /\ comments = <<CommentRow(2, 1, NULL, NULL, "text")>>
    /\ reports = <<ReportRow(2, "comment", 1)>>

NextAdmin ==
    \/ \E c \in AccountArgs, p \in {1, NumPaths + 1} :
          /\ BagCardinality(notifications) < MaxNotifications
          /\ approve_path(c, p)
    \/ \E c \in AccountArgs, p \in {1, NumPaths + 1} :
          /\ BagCardinality(notifications) < MaxNotifications
          /\ reject_path(c, p)
    \/ \E c \in AccountArgs, u \in AccountArgs, new_role \in RoleArgs :
          change_user_role(c, u, new_role)
    \/ \E c \in AccountArgs, u \in AccountArgs, should_suspend \in BOOLEAN :
          suspend_user(c, u, should_suspend)
    \/ \E c \in AccountArgs, u \in 1..(NumAccounts + 1) : delete_user(c, u)
    \/ \E c \in AccountArgs, r \in ReportArgs : dismiss_report(c, r)
    \/ \E c \in AccountArgs, r \in ReportArgs, action \in ActionArgs :
          /\ BagCardinality(notifications) < MaxNotifications
          /\ action_report(c, r, action)
    \/ \E c \in AccountArgs : get_dashboard_stats(c)
    \/ \E c \in AccountArgs : get_pending_paths(c)
    \/ \E c \in AccountArgs, role_filter \in {Absent, "admin"} : get_users(c, role_filter)
    \/ \E c \in AccountArgs, status_filter \in {"pending"} : get_reports(c, status_filter)

SpecAdmin == InitAdmin /\ [][NextAdmin]_vars


\* --------------------------------------------------- admin: the properties
AdminOps ==
    {"approve_path", "reject_path", "change_user_role", "suspend_user",
     "delete_user", "dismiss_report", "action_report", "get_dashboard_stats",
     "get_pending_paths", "get_users", "get_reports"}

\* C15: every admin operation checks the caller's role before its body runs:
\* a call by an existing user whose role is not admin is answered 403 and no
\* table changes (a caller whose row is gone has no role and is answered 404)
C15_AdminOnly ==
    [][ (/\ last'.op \in AdminOps
         /\ last'.user \in users
         /\ role[last'.user] # "admin")
        => (last'.status = 403 /\ UNCHANGED state) ]_vars

\* a learner asked to delete the admin's account and was refused
C15_Witness ==
    /\ last.op = "delete_user"
    /\ last.status = 403
    /\ last.user \in users
    /\ role[last.user] = "learner"
    /\ last.arg \in users
    /\ role[last.arg] = "admin"


\* the user id an admin user-management call names
Target(response) ==
    IF response.op = "delete_user" THEN response.arg ELSE response.arg.user_id

\* C16: an admin cannot target their own account: suspend_user, delete_user
\* and change_user_role called by an admin on the admin's own id return 400
\* and leave the admin's row (existence, status, role) as it was
C16_NoSelfTarget ==
    [][ (/\ last'.op \in {"suspend_user", "delete_user", "change_user_role"}
         /\ Admitted(last'.user)
         /\ Target(last') = last'.user)
        => (/\ last'.status = 400
            /\ last'.user \in users'
            /\ user_status'[last'.user] = user_status[last'.user]
            /\ role'[last'.user] = role[last'.user]) ]_vars


\* the roles the specification allows
RoleAllowList == {"admin", "contributor", "learner"}

\* C21: change_user_role applies a role only if it is in the allow-list
\* admin, contributor, learner: a role outside the list, asked for by an
\* admin for an existing user, is answered 400 and leaves every table as it
\* was, so every user's role is in the allow-list before and after every step
C21_RoleAllowList ==
    [][ /\ ( /\ last'.op = "change_user_role"
             /\ Admitted(last'.user)
             /\ last'.arg.user_id \in users
             /\ last'.arg.role \notin RoleAllowList ) =>
              last'.status = 400 /\ UNCHANGED state
        /\ \A u \in users : role[u] \in RoleAllowList
        /\ \A u \in users' : role'[u] \in RoleAllowList ]_vars

\* the admin asked for the role owner for a learner and was refused
C21_Witness ==
    /\ last.op = "change_user_role"
    /\ last.status = 400
    /\ last.message = "INVALID_ROLE"
    /\ last.arg.role = "owner"
    /\ last.user \in users /\ role[last.user] = "admin"
    /\ last.arg.user_id \in users /\ role[last.arg.user_id] = "learner"


\* the actions the specification allows on a report
ReportActions == {"warn", "remove", "ban"}

\* the step is action_report by an admin on an existing report
Actioning ==
    /\ last'.op = "action_report"
    /\ Admitted(last'.user)
    /\ last'.arg.report_id \in DOMAIN reports

\* C22: action_report moves a report to actioned if and only if the action
\* is warn, remove or ban: any other or a missing action is answered 400 and
\* changes nothing; a valid action on a report of an existing comment has
\* exactly its own effect (warn: one content_warning notification to the
\* author; remove: the comment is_deleted; ban: the comment is_deleted and
\* its author banned) and the report is then actioned with action_taken the
\* chosen action; no other step makes a report actioned
C22_ActionReport ==
    [][ /\ (Actioning /\ last'.arg.action \notin ReportActions) =>
              last'.status = 400 /\ UNCHANGED state
        /\ (Actioning /\ last'.arg.action \in ReportActions) =>
              LET r == last'.arg.report_id
                  action == last'.arg.action
                  id == reports[r].content_id
              IN
              /\ last'.status = 200
              /\ reports' = [reports EXCEPT ![r].status = "actioned",
                                            ![r].action_taken = action,
                                            ![r].resolved_at = now,
                                            ![r].resolved_by = last'.user]
              /\ (reports[r].content_type = "comment" /\ id \in DOMAIN comments) =>
                    /\ comments' =
                         IF action = "warn" THEN comments
                         ELSE [comments EXCEPT ![id].is_deleted = TRUE]
                    /\ notifications' =
                         IF action = "warn"
                         THEN notifications (+) SetToBag(
                                {Notification(comments[id].user_id, "content_warning",
                                              "comment", id)})
                         ELSE notifications
                    /\ user_status' =
                         IF action = "ban"
                         THEN [user_status EXCEPT ![comments[id].user_id] = "banned"]
                         ELSE user_status
              /\ UNCHANGED <<userVars, now, contentVars, progressVars, badgeVars,
                             quiz_attempts, is_published, is_approved, requests>>
        /\ \A r \in DOMAIN reports :
              (reports[r].status # "actioned" /\ reports'[r].status = "actioned") =>
                 /\ Actioning
                 /\ last'.arg.report_id = r
                 /\ last'.arg.action \in ReportActions ]_vars

\* the admin banned the author of the reported comment: the comment is
\* deleted, the author banned, the report actioned with action_taken ban
C22_Witness ==
    /\ last.op = "action_report" /\ last.status = 200
    /\ last.arg.action = "ban"
    /\ reports[last.arg.report_id].status = "actioned"
    /\ reports[last.arg.report_id].action_taken = "ban"
    /\ comments[reports[last.arg.report_id].content_id].is_deleted
    /\ user_status[comments[reports[last.arg.report_id].content_id].user_id] = "banned"


\* ----------------------------------- approval and the listing: specification
InitListing ==
    /\ InitAccounts
    /\ comments = <<>>
    /\ reports = <<>>

NextListing ==
    \/ \E c \in AccountArgs, p \in PathArgs :
          /\ BagCardinality(notifications) < MaxNotifications
          /\ approve_path(c, p)
    \/ \E c \in AccountArgs, p \in PathArgs :
          /\ BagCardinality(notifications) < MaxNotifications
          /\ reject_path(c, p)
    \/ \E c \in AccountArgs : get_pending_paths(c)
    \/ get_learning_paths
    \/ \E query \in QueryArgs : search_learning_content(query)

SpecListing == InitListing /\ [][NextListing]_vars

\* -------------------------------------- approval and the listing: properties
\* the path_approved notifications of user u for path p among `rows`
ApprovalNotes(u, p, rows) ==
    CopiesIn(Notification(u, "path_approved", "learning_path", p), rows)

\* C19: approve_path by an admin on a path that is not approved sets
\* is_approved, adds the fixed 100 XP to the path's creator and creates exactly
\* one path_approved notification for the creator, changing nothing else; on
\* an approved path it fails with ALREADY_APPROVED and changes nothing
C19_ApprovePath ==
    [][ (/\ last'.op = "approve_path"
         /\ Admitted(last'.user)
         /\ last'.arg \in PathIds)
        => LET p == last'.arg
               creator == path_creator[p]
           IN IF is_approved[p]
              THEN /\ last'.status = 400
                   /\ last'.message = "ALREADY_APPROVED"
                   /\ UNCHANGED state
              ELSE /\ last'.status = 200
                   /\ is_approved' = [is_approved EXCEPT ![p] = TRUE]
                   /\ xp' = [xp EXCEPT ![creator] = @ + PathApprovalXp]
                   /\ BagCardinality(notifications') = BagCardinality(notifications) + 1
                   /\ ApprovalNotes(creator, p, notifications') =
                         ApprovalNotes(creator, p, notifications) + 1
                   /\ UNCHANGED <<accountVars, points, now, contentVars, progressVars,
                                  badgeVars, activityVars, user_status, is_published,
                                  reports, requests>> ]_vars

\* the admin approved a pending path: its creator has the 100 XP and one
\* notification
C19_Witness ==
    /\ last.op = "approve_path"
    /\ last.status = 200
    /\ is_approved[last.arg]
    /\ xp[path_creator[last.arg]] = PathApprovalXp
    /\ ApprovalNotes(path_creator[last.arg], last.arg, notifications) = 1


\* C20: the flags gate visibility: whatever was approved or rejected before,
\* the public listing and the public search hold no path that is unpublished
\* and no path that is unapproved
C20_Visibility ==
    /\ last.op = "get_learning_paths" =>
          \A path \in last.data : path.is_published /\ path.is_approved
    /\ last.op = "search_learning_content" =>
          \A p \in last.data.paths : is_published[p] /\ is_approved[p]


\* ---------------------------------------------------------- comment routes
MaxComments == 2
MaxCommentHours == 1
CommentXp == 5
EditWindowMinutes == 15
MinutesPerHour == 60
DeletedMask == "[This comment has been deleted]"

\* Python truthiness of an optional integer: None and 0 are false
Truthy(x) == x # NULL /\ x # 0

CommentDict_Unmasked(i) ==
    [id |-> i, content |-> comments[i].content, user_id |-> comments[i].user_id,
     learning_path_id |-> comments[i].learning_path_id,
     resource_id |-> comments[i].resource_id,
     parent_id |-> comments[i].parent_id,
     is_deleted |-> comments[i].is_deleted]

\* Comment.to_dict()
CommentDict(i) ==
    [id |-> i,
     content |-> IF comments[i].is_deleted THEN DeletedMask ELSE comments[i].content,
     user_id |-> comments[i].user_id,
     learning_path_id |-> comments[i].learning_path_id,
     resource_id |-> comments[i].resource_id,
     parent_id |-> comments[i].parent_id,
     is_deleted |-> comments[i].is_deleted]

\* GET /comments?learning_path_id=...&resource_id=...: the top-level comments
\* of the target, each with its replies (the order by created_at and the
\* pages are left out)
get_comments(learning_path_id, resource_id) ==
    /\ IF ~Truthy(learning_path_id) /\ ~Truthy(resource_id)
       THEN last' = Response("get_comments", NULL,
                             [learning_path_id |-> learning_path_id,
                              resource_id |-> resource_id],
                             400, "learning_path_id or resource_id is required", <<>>)
       ELSE LET top == {i \in DOMAIN comments :
                          /\ comments[i].parent_id = NULL
                          /\ Truthy(learning_path_id) =>
                                comments[i].learning_path_id = learning_path_id
                          /\ Truthy(resource_id) =>
                                comments[i].resource_id = resource_id}
            IN last' = Response("get_comments", NULL,
                          [learning_path_id |-> learning_path_id,
                           resource_id |-> resource_id],
                          200, "",
                          {[comment |-> CommentDict(i),
                            replies |-> {CommentDict(j) : j \in
                                {k \in DOMAIN comments : comments[k].parent_id = i}}] :
                           i \in top})
    /\ UNCHANGED state

\* a foreign key of the row names no row
Dangling(row) ==
    \/ row.user_id \notin users
    \/ row.learning_path_id # NULL /\ row.learning_path_id \notin PathIds
    \/ row.resource_id # NULL /\ row.resource_id \notin ResourceIds
    \/ row.parent_id # NULL /\ row.parent_id \notin DOMAIN comments

\* POST /comments; a row with a dangling foreign key is stored where the
\* database does not enforce foreign keys (SQLite as configured) and fails
\* the commit where it does
create_comment(u, content, learning_path_id, resource_id, parent_id) ==
    LET arg == [content |-> content, learning_path_id |-> learning_path_id,
                resource_id |-> resource_id, parent_id |-> parent_id]
        new_comment == CommentRow(u, learning_path_id, resource_id, parent_id, content)
    IN
    IF content = ""
    THEN /\ last' = Response("create_comment", u, arg, 400, "Content is required", <<>>)
         /\ UNCHANGED state
    ELSE IF ~Truthy(learning_path_id) /\ ~Truthy(resource_id)
    THEN /\ last' = Response("create_comment", u, arg, 400,
                             "learning_path_id or resource_id is required", <<>>)
         /\ UNCHANGED state
    ELSE IF Truthy(learning_path_id) /\ learning_path_id \notin PathIds
    THEN /\ last' = Response("create_comment", u, arg, 404, "Learning path not found", <<>>)
         /\ UNCHANGED state
    ELSE IF ~Truthy(learning_path_id) /\ resource_id \notin ResourceIds
    THEN /\ last' = Response("create_comment", u, arg, 404, "Resource not found", <<>>)
         /\ UNCHANGED state
    ELSE IF Truthy(parent_id) /\ parent_id \notin DOMAIN comments
    THEN /\ last' = Response("create_comment", u, arg, 404, "Parent comment not found", <<>>)
         /\ UNCHANGED state
    ELSE IF Truthy(parent_id) /\ Truthy(comments[parent_id].parent_id)
    THEN /\ last' = Response("create_comment", u, arg, 400,
                             "Nested replies limited to 1 level", <<>>)
         /\ UNCHANGED state
    ELSE \/ /\ comments' = Append(comments, new_comment)
            /\ xp' = IF u \in users THEN [xp EXCEPT ![u] = @ + CommentXp] ELSE xp
            /\ last' = Response("create_comment", u, arg, 201, "",
                                [id |-> Len(comments) + 1,
                                 content |-> content, user_id |-> u,
                                 learning_path_id |-> learning_path_id,
                                 resource_id |-> resource_id,
                                 parent_id |-> parent_id, is_deleted |-> FALSE])
            /\ UNCHANGED <<accountVars, points, now, contentVars, progressVars,
                           badgeVars, quiz_attempts, moderationVars, requests>>
         \/ /\ Dangling(new_comment)
            /\ last' = Response("create_comment", u, arg, 500, "Internal Server Error", <<>>)
            /\ UNCHANGED state

\* PUT /comments/<comment_id>
update_comment(u, i, content) ==
    LET arg == [comment_id |-> i, content |-> content] IN
    IF i \notin DOMAIN comments
    THEN /\ last' = Response("update_comment", u, arg, 404, "Not Found", <<>>)
         /\ UNCHANGED state
    ELSE IF comments[i].user_id # u
    THEN /\ last' = Response("update_comment", u, arg, 403, "Unauthorized", <<>>)
         /\ UNCHANGED state
    ELSE IF comments[i].is_deleted
    THEN /\ last' = Response("update_comment", u, arg, 400,
                             "Cannot edit deleted comment", <<>>)
         /\ UNCHANGED state
    ELSE IF (now - comments[i].created_at) * MinutesPerHour > EditWindowMinutes
    THEN /\ last' = Response("update_comment", u, arg, 403,
                             "Edit window has expired (15 minutes)", <<>>)
         /\ UNCHANGED state
    ELSE IF content = ""
    THEN /\ last' = Response("update_comment", u, arg, 400, "Content is required", <<>>)
         /\ UNCHANGED state
    ELSE /\ comments' = [comments EXCEPT ![i].content = content]
         /\ last' = Response("update_comment", u, arg, 200, "",
                             [CommentDict(i) EXCEPT !.content = content])
         /\ UNCHANGED <<userVars, now, contentVars, progressVars, badgeVars,
                        quiz_attempts, moderationVars, requests>>

\* DELETE /comments/<comment_id>
delete_comment(u, i) ==
    IF i \notin DOMAIN comments
    THEN /\ last' = Response("delete_comment", u, i, 404, "Not Found", <<>>)
         /\ UNCHANGED state
    ELSE IF comments[i].user_id # u
    THEN /\ last' = Response("delete_comment", u, i, 403, "Unauthorized", <<>>)
         /\ UNCHANGED state
    ELSE /\ comments' = [comments EXCEPT ![i].is_deleted = TRUE]
         /\ last' = Response("delete_comment", u, i, 200, "Comment deleted", <<>>)
         /\ UNCHANGED <<userVars, now, contentVars, progressVars, badgeVars,
                        quiz_attempts, moderationVars, requests>>


\* ------------------------------------------------ comments: specification
Commenters == {NumAccounts}
CommentCallers == {2, NumAccounts}
ContentArgs == {"", "text"}
EditArgs == {"", "edit"}
\* (learning_path_id, resource_id) of a request
TargetArgs == {<<NULL, NULL>>, <<1, NULL>>, <<NumPaths + 1, NULL>>,
               <<NULL, NumResources + 1>>}
ParentArgs == {NULL, 0, 1, MaxComments + 1}
CommentArgs == 1..(MaxComments + 1)

\* the accounts, every path published, no comment yet, and a pending report
\* on the comment that will get id 1
InitComments ==
    /\ InitAccounts
    /\ is_published = [p \in PathIds |-> TRUE]
    /\ comments = <<>>
    /\ reports = <<ReportRow(2, "comment", 1)>>

NextComments ==
    \/ \E u \in Commenters, content \in ContentArgs, target \in TargetArgs,
          parent_id \in ParentArgs :
          /\ Len(comments) < MaxComments
          /\ create_comment(u, content, target[1], target[2], parent_id)
    \/ \E u \in CommentCallers, i \in CommentArgs, content \in EditArgs :
          update_comment(u, i, content)
    \/ \E u \in CommentCallers, i \in CommentArgs : delete_comment(u, i)
    \/ \E target \in TargetArgs : get_comments(target[1], target[2])
    \/ \E action \in {"remove", "ban"} : action_report(1, 1, action)
    \/ \E u \in CommentCallers : delete_user(1, u)
    \/ now < MaxCommentHours /\ Tick(1)

SpecComments == InitComments /\ [][NextComments]_vars


\* ---------------------------------------------------- comments: properties
\* comment i has a parent: its parent_id names a row
HasParent(i) ==
    comments[i].parent_id # NULL /\ comments[i].parent_id \in DOMAIN comments

\* C17: nesting is capped at one level: after any sequence of comment
\* operations every comment that has a parent has a parent whose own
\* parent_id is null
C17_DepthOne ==
    \A i \in DOMAIN comments :
        HasParent(i) => comments[comments[i].parent_id].parent_id = NULL


\* the serialized comments of a listing: the top-level ones and their replies
Listed(response) ==
    {entry.comment : entry \in response.data} \cup
    UNION {entry.replies : entry \in response.data}

\* the step is a call of the handler op (the clock did not tick)
Handled(op) == last'.op = op /\ now' = now

\* C18: soft delete is sticky and masking: delete_comment by the owner and a
\* remove or ban report action leave the row in place with is_deleted true
\* and its stored text untouched, a listing serializes a deleted comment with
\* the fixed mask instead of its text, the owner's update_comment on it is
\* rejected with 400 and changes nothing, and no step sets is_deleted back
\* to false or drops a row
C18_SoftDelete ==
    [][ /\ \A i \in DOMAIN comments :
             /\ i \in DOMAIN comments'
             /\ comments[i].is_deleted =>
                   /\ comments'[i].is_deleted
                   /\ comments'[i].content = comments[i].content
        /\ (Handled("delete_comment") /\ last'.status = 200) =>
              /\ comments[last'.arg].user_id = last'.user
              /\ comments' = [comments EXCEPT ![last'.arg].is_deleted = TRUE]
        /\ ( /\ Handled("action_report") /\ last'.status = 200
             /\ last'.arg.action \in {"remove", "ban"}
             /\ reports[last'.arg.report_id].content_type = "comment"
             /\ reports[last'.arg.report_id].content_id \in DOMAIN comments ) =>
              comments' = [comments EXCEPT
                             ![reports[last'.arg.report_id].content_id].is_deleted = TRUE]
        /\ ( /\ Handled("update_comment")
             /\ last'.arg.comment_id \in DOMAIN comments
             /\ comments[last'.arg.comment_id].is_deleted
             /\ comments[last'.arg.comment_id].user_id = last'.user ) =>
              last'.status = 400 /\ UNCHANGED state
        /\ (Handled("get_comments") /\ last'.status = 200) =>
              \A dict \in Listed(last') :
                 /\ dict.is_deleted = comments[dict.id].is_deleted
                 /\ dict.content = IF comments[dict.id].is_deleted
                                   THEN DeletedMask
                                   ELSE comments[dict.id].content ]_vars

\* a listing shows a deleted comment, masked, whose stored text is still
\* in its row
C18_Witness ==
    /\ last.op = "get_comments" /\ last.status = 200
    /\ \E dict \in Listed(last) :
          /\ dict.is_deleted
          /\ dict.content = DeletedMask
          /\ comments[dict.id].content = "text"



\* ------------------------------------------------- failures: specification
\* the commits of POST /gamification/streak/update, in the order they run
StreakCommits == {"update_user_streak", "award_streak_bonus"}

\* POST /progress/enroll/<path_id> when db.session.commit() raises (the
\* database is locked or gone): nothing is stored, the exception leaves the
\* route, and the session with its pending rows is dropped with the request
enroll_in_path_commit_fails(u, p) ==
    /\ p \in PathIds
    /\ ~AlreadyEnrolled(u, p)
    /\ last' = Response("enroll_in_path", u, p, 500, "Internal Server Error", <<>>)
    /\ UNCHANGED state

\* POST /gamification/streak/update when the commit of update_user_streak or
\* the commit of award_streak_bonus raises: the service rolls its session
\* back and raises StreakError, handle_db_errors rolls back again and answers
\* 500; what update_user_streak committed before award_streak_bonus ran stays
streak_update_commit_fails(u, at) ==
    LET after == StreakAfter(u)
        done == StreakBonus(u, after.streak_days)
    IN
    /\ u \in users
    /\ last' = Response("streak_update", u, NULL, 500, "DATABASE_ERROR", <<>>)
    /\ IF at = "update_user_streak"
       THEN /\ after.message # "already counted"
            /\ UNCHANGED state
       ELSE /\ done.bonuses # <<>>
            /\ streak_days' = [streak_days EXCEPT ![u] = after.streak_days]
            /\ last_active' = [last_active EXCEPT ![u] = after.last_active]
            /\ UNCHANGED <<users, role, xp, points, now, contentVars, moderationVars,
                           requests, progressVars, badgeVars, activityVars>>

NextFailures ==
    \/ Tick(HoursPerDay)
    \/ \E u \in users : streak_update(u)
    \/ \E u \in users, at \in StreakCommits : streak_update_commit_fails(u, at)
    \/ \E u \in users : enroll_in_path(u, 1)
    \/ \E u \in users : enroll_in_path_commit_fails(u, 1)

SpecFailures == InitStreak /\ [][NextFailures]_vars

\* C24 (as claimed): a call that fails with an exception leaves no write of
\* its own in the stored state: every table is as it was before the call
C24_RollsBack ==
    [][ (last'.status = 500 /\ now' = now) => UNCHANGED state ]_vars



\* ------------------------------------------- progress: the completion sets
NoDuplicate(list) ==
    \A i, j \in DOMAIN list : list[i] = list[j] => i = j

\* every id of list is in longer
Within(list, longer) == \A i \in DOMAIN list : Member(list[i], longer)

\* C25: the completion sets of an enrollment only grow: a step of
\* complete_resource or complete_module (or any other) removes no module id
\* from completed_modules and no resource id from completed_resources, and
\* no id is in either list twice
C25_CompletionSetsGrow ==
    [][ /\ \A u \in UserIds, p \in PathIds :
             \A row \in ProgressRows(u, p) :
                \E new \in ProgressRows(u, p)' :
                   /\ Within(row.completed_modules, new.completed_modules)
                   /\ Within(row.completed_resources, new.completed_resources)
        /\ \A row \in BagToSet(user_progress') :
              /\ NoDuplicate(row.completed_modules)
              /\ NoDuplicate(row.completed_resources) ]_vars

\* an enrollment with two modules and two resources completed
C25_Witness ==
    \E row \in BagToSet(user_progress) :
       /\ Len(row.completed_modules) >= 2
       /\ Len(row.completed_resources) >= 2


\* C26 (as claimed): an enrollment whose status is completed has every
\* module of its path in completed_modules
C26_CompletedMeansAll ==
    \A row \in BagToSet(user_progress) :
       row.status = "completed" =>
          \A m \in ModulesOf(row.learning_path_id) :
             Member(m, row.completed_modules)


\* C27 (as claimed): for every enrollment and every resource of its path, a
\* ResourceCompletion of the user for the resource means the resource id is
\* in the enrollment's completed_resources
C27_CompletionCounted ==
    \A u \in UserIds, p \in PathIds :
       \A row \in ProgressRows(u, p) :
          \A r \in ResourcesOf(p) :
             CompletionRows(u, r) # {} => Member(r, row.completed_resources)

\* C27: a resource is in an enrollment's completed_resources exactly when
\* its ResourceCompletion was recorded while the enrollment existed:
\* enroll_in_path starts the list empty, complete_resource adds the id when
\* it records the completion for an enrolled user, every id in the list has
\* a ResourceCompletion, and a resource completed before enrolling never
\* enters the list
C27_CountedWhileEnrolled ==
    [][ \A u \in UserIds, p \in PathIds :
           /\ \A new \in ProgressRows(u, p)' :
                 /\ ProgressRows(u, p) = {} => new.completed_resources = <<>>
                 /\ \A i \in DOMAIN new.completed_resources :
                       CompletionRows(u, new.completed_resources[i])' # {}
           /\ \A row \in ProgressRows(u, p) :
                 \A r \in ResourcesOf(p) :
                    /\ ( /\ Called("complete_resource", u, r)
                         /\ last'.status = 201 ) =>
                          \A new \in ProgressRows(u, p)' :
                             Member(r, new.completed_resources)
                    /\ ( /\ CompletionRows(u, r) # {}
                         /\ ~Member(r, row.completed_resources) ) =>
                          \A new \in ProgressRows(u, p)' :
                             ~Member(r, new.completed_resources) ]_vars

\* an enrollment that counts a resource completed after enrolling and does
\* not count one completed before, which a repeated complete_resource just
\* answered with the stored completion
C27_Witness ==
    \E u \in UserIds, p \in PathIds :
       \E row \in ProgressRows(u, p) :
          \E before, after \in ResourcesOf(p) :
             /\ CompletionRows(u, before) # {}
             /\ ~Member(before, row.completed_resources)
             /\ Member(after, row.completed_resources)
             /\ last.op = "complete_resource"
             /\ last.arg = before
             /\ last.status = 200


\* the percentage, kept as a reduced fraction, is between 0 and 100
InRange(percentage) ==
    0 <= percentage.num /\ percentage.num <= 100 * percentage.den

\* C28 (as claimed): progress_percentage is always between 0 and 100, and a
\* completed enrollment stays completed with progress_percentage 100 in
\* every later step
C28_CompletedStays ==
    [][ \A u \in UserIds, p \in PathIds :
           /\ \A new \in ProgressRows(u, p)' : InRange(new.progress_percentage)
           /\ \A row \in ProgressRows(u, p) :
                 row.status = "completed" =>
                    \A new \in ProgressRows(u, p)' :
                       /\ new.status = "completed"
                       /\ new.progress_percentage = Ratio(100, 1) ]_vars



\* ------------------------------------------ streak: a caller in daily rhythm
\* the longest time the caller lets pass between two streak updates
MaxGap == HoursPerDay - 1
MaxRhythmHours == 100

\* the clock moves on by d hours, once between two calls: `last` holds no
\* response until the next call
Wait(d) ==
    /\ last.op # "wait"
    /\ now + d <= MaxRhythmHours
    /\ now' = now + d
    /\ last' = Response("wait", NULL, d, 0, "", <<>>)
    /\ UNCHANGED <<userVars, contentVars, moderationVars, requests, progressVars,
                   badgeVars, activityVars>>

\* one account, new (no activity yet) or active now with a streak
InitRhythm ==
    /\ InitUsers
    /\ \E s \in {0, 6} :
          \/ /\ streak_days = [u \in UserIds |-> s]
             /\ last_active = [u \in UserIds |-> 0]
          \/ /\ streak_days = [u \in UserIds |-> 0]
             /\ last_active = [u \in UserIds |-> NULL]
    /\ now = 0
    /\ InitNoActivity
    /\ InitNoProgress
    /\ InitNoModeration
    /\ InitEmptyQuiz
    /\ path_creator = [p \in PathIds |-> 1]
    /\ module_path = [m \in ModuleIds |-> 1]
    /\ module_order = [m \in ModuleIds |-> 0]
    /\ InitDefaultRewards
    /\ resource_module = [r \in ResourceIds |-> 1]
    /\ last = Response("init", 0, 0, 0, "", <<>>)

\* the calls of one user, never more than MaxGap hours apart
NextRhythm ==
    \/ \E d \in {1, MaxGap - 1, MaxGap} : Wait(d)
    \/ update_user_streak(1)
    \/ streak_update(1)

SpecRhythm == InitRhythm /\ [][NextRhythm]_vars

StreakOps == {"update_user_streak", "streak_update"}

DistinctXp(S) == \A v, w \in S : xp[v] = xp[w] => v = w

\* C30: the two ranking operations agree where xp values are pairwise
\* distinct: on the same tables, for a period whose filtered set has no two
\* users of equal xp, the rank of a user's entry in get_leaderboard is the
\* user_rank get_user_rank answers for that user and period, and that
\* user_rank is at most total_users
C30_RanksAgree ==
    [][ ( /\ last.op = "get_leaderboard" /\ last.status = 200
          /\ last'.op = "get_user_rank" /\ last'.status = 200
          /\ last'.arg.period = last.arg.period
          /\ DistinctXp(Filtered(last.arg.period)) ) =>
           \A i \in DOMAIN last.data :
              last.data[i].user_id = last'.user =>
                 /\ last.data[i].rank = last'.data.user_rank
                 /\ last'.data.user_rank <= last'.data.total_users ]_vars

\* with all xp values distinct, the second of two users active this week is
\* second on the weekly leaderboard and has user_rank 2 of 2
C30_Witness ==
    /\ DistinctXp(users)
    /\ last.op = "get_user_rank" /\ last.status = 200
    /\ last.arg.period = "weekly"
    /\ last.user \in Filtered("weekly")
    /\ last.data.user_rank = 2
    /\ last.data.total_users = 2

====
